---- MODULE Spec2Model ----
(***************************************************************************)
(* A model of the PAWX interpreter (samwilcox/pawx).                       *)
(*                                                                         *)
(*   Spec       run() of interpreter/mod.rs with the timer runtime of      *)
(*              interpreter/timers.rs: the statement loop, the pump, the   *)
(*              closures bound in the root scope and the timer threads.    *)
(*   SpecEnv    the scope chain of interpreter/environment.rs.             *)
(*   SpecTry    Stmt::Try of interpreter/statements.rs.                    *)
(*   SpecPride  Stmt::Pride of interpreter/statements.rs.                  *)
(*   SpecEq     Expr::Binary of interpreter/expressions.rs.                *)
(*   SpecClass  class declarations, `new`, property writes and push as     *)
(*              statements.rs, expressions.rs and calls.rs evaluate them.   *)
(***************************************************************************)
EXTENDS Integers, Naturals, Sequences, FiniteSets, TLC

(* ----------------------------- bounds ---------------------------------- *)

\* Timer ids the counter next_id may hand out (setTimeout is not called
\* once next_id exceeds it).
MaxTimers == 2
\* Top-level statements of the program given to run().
MaxStmts == 2
\* Calls made by one top-level statement or by one callback body.
MaxOps == 2
\* Largest delay, in ticks of the clock, passed to setTimeout/setInterval.
MaxDelay == 1
\* Messages the channel holds in the model (the mpsc channel is unbounded;
\* only a looping interval thread can fill it).
MaxQueue == 3

(* ------------------------- timer runtime state -------------------------- *)

VARIABLES
    bound,      \* names bound as callables in the root scope (Environment.values)
    nStmts,     \* run(statements): the number of top-level statements
    stmtIdx,    \* top-level statements started so far
    pc,         \* evaluator position: "loop" "stmt" "pump" "cb" "done" "panic"
    final,      \* the pump running is the final drain of run()
    inPump,     \* pump_timers is on the evaluator's call stack
    opCount,    \* calls made by the statement / callback body now executing
    cbId,       \* timer whose callback is executing (0: none)
    cbArgs,     \* the argument vector the executing callback was given
    timers,     \* TimerRuntime.timers: id -> TimerEntry
    next_id,    \* TimerRuntime.next_id
    chan,       \* the mpsc channel: messages sent and not yet received
    thr,        \* per id, its background thread: "none", a timeout thread "tsleep"
                \* "sent", an interval thread "isleep" "loaded" "exit"
    sleepLeft,  \* per id, ticks its thread still sleeps
    delayOf,    \* per id, the delay its thread was spawned with
    flag,       \* per id, the AtomicBool cancel flag shared with an interval thread
    panicWhy,   \* the panic that aborted the evaluator ("" while it runs)
    \* history (observers of the run, never read by the program)
    passNo,     \* pump_timers calls started so far
    passesDone, \* pump_timers calls that returned
    noneDone,   \* top-level statements that completed with ExecSignal::None
    reg,        \* per id: the pass count and the context at its registration
    curRegs,    \* ids registered by the statement / callback body now executing
    clearedEarly, \* ids clearTimeout was called on before their message was processed
    intervalCleared, \* ids on which clearInterval was called
    lateTicks   \* per id: ticks queued at its clearInterval plus ticks sent after

VARIABLES
    scopes,     \* the Environment objects allocated: scope id -> [parent, values]
    lastGet     \* the last Environment.get call: [from, name, res] (from 0: none yet)

envVars == <<scopes, lastGet>>

VARIABLES
    env,        \* the scope the statement under execution runs in
    phase,      \* where the statement is: "idle", "try", "catch", "finally",
                \* "body", "done", "abort" (the process panicked)
    pos,        \* statements of the current block executed so far
    hasCatch,   \* the try statement has a catch clause (catch_param, catch_block)
    hasFinally, \* the try statement has a finally block
    result,     \* the local `result` of Stmt::Try
    ret,        \* what exec_stmt returned for the statement
    catch_env,  \* the scope created for the catch body (0: none)
    pride_env,  \* the scope created for the body of a pride block (0: none)
    env0,       \* history: the value table of scope env when the statement began
    trace       \* history: the blocks entered and what each executed statement
                \* of them returned, in order

VARIABLES
    stores,     \* the field maps allocated (Rc<RefCell<HashMap<String, Value>>>)
    arrays,     \* the array backing stores allocated (Rc<RefCell<Vec<Value>>>)
    byNew,      \* history: the variables last bound by `new C()`
    fieldEvals  \* history: how often each field initializer of C was evaluated

heapVars == <<stores, arrays, byNew, fieldEvals>>

VARIABLES
    lastEval    \* the last expression evaluated on its own, with the value it
                \* produced: [expr, value] (expr "none": nothing yet)

VARIABLES
    tokens,     \* Parser.tokens: the token stream of the source, Eof last
    current,    \* Parser.current: tokens consumed so far
    program     \* the Vec<Stmt> parse() returned, or the panic it ended in
                \* (parsed FALSE: parse() has not run); the Expr alone when
                \* only Parser::primary ran

parseVars == <<tokens, current, program>>

VARIABLES
    functions   \* Environment.functions of every scope that declares a function:
                \* scope -> (name -> FunctionDef)

callVars == <<functions>>

exprVars == <<lastEval, parseVars, callVars>>

stmtVars == <<env, phase, pos, hasCatch, hasFinally, result, ret, catch_env,
              pride_env, env0, trace>>

timerVars == <<bound, nStmts, stmtIdx, pc, final, inPump, opCount, cbId, cbArgs,
               timers, next_id, chan, thr, sleepLeft, delayOf, flag, panicWhy>>
timerHist == <<passNo, passesDone, noneDone, reg, curRegs, clearedEarly,
               intervalCleared, lateTicks>>

\* Everything outside the timer runtime.
evalVars == <<envVars, stmtVars, heapVars, exprVars>>

vars == <<timerVars, timerHist, evalVars>>

Ids == 1..MaxTimers

TimerOps == {"setTimeout", "setInterval", "clearTimeout", "clearInterval"}

\* Value::NativeFunction(f): a lambda of the script.
Lambda == [tag |-> "NativeFunction", n |-> 0]
\* Value::Number(n)
Number(n) == [tag |-> "Number", n |-> n]

\* TimerEntry { callback, is_interval, cancel_flag }; cancel_flag names the
\* shared flag (0: None).
TimerEntry(cb, interval, cf) == [callback |-> cb, is_interval |-> interval, cancel_flag |-> cf]

\* TimerMessage::Timeout(id) / TimerMessage::IntervalTick(id)
Timeout(id) == [kind |-> "Timeout", id |-> id]
IntervalTick(id) == [kind |-> "IntervalTick", id |-> id]

\* HashMap::insert / HashMap::remove
MapInsert(m, k, v) == [x \in (DOMAIN m) \cup {k} |-> IF x = k THEN v ELSE m[x]]
\* A removal that leaves the entry in the map.
MapKeep(m, k) == m

\* HashMap::remove
MapRemove(m, k) == [x \in (DOMAIN m) \ {k} |-> m[x]]

EmptyMap == [x \in {} |-> 0]

NoReg == [pass |-> 0, top |-> FALSE]

\* The names install_timers binds in the root scope.
InstalledByRun == {"setTimeout"}

\* The names bound once install_set_timeout, install_set_interval,
\* install_clear_timeout and install_clear_interval have all been applied.
InstalledByAll == TimerOps

TimerInit(names, lengths) ==
    /\ bound = names
    /\ nStmts \in lengths
    /\ stmtIdx = 0
    /\ pc = "loop"
    /\ final = FALSE
    /\ inPump = FALSE
    /\ opCount = 0
    /\ cbId = 0
    /\ cbArgs = <<>>
    /\ timers = EmptyMap
    /\ next_id = 1
    /\ chan = <<>>
    /\ thr = [i \in Ids |-> "none"]
    /\ sleepLeft = [i \in Ids |-> 0]
    /\ delayOf = [i \in Ids |-> 0]
    /\ flag = [i \in Ids |-> FALSE]
    /\ panicWhy = ""
    /\ passNo = 0
    /\ passesDone = 0
    /\ noneDone = 0
    /\ reg = [i \in Ids |-> NoReg]
    /\ curRegs = {}
    /\ clearedEarly = {}
    /\ intervalCleared = {}
    /\ lateTicks = [i \in Ids |-> 0]

\* The evaluator models below leave the timer runtime as run() starts it,
\* with no statement to execute.
TimerIdle == TimerInit(InstalledByRun, {0})

\* Environment::new(None) with nothing defined in it.
RootScope == [parent |-> 0, values |-> EmptyMap]

NoGet == [from |-> 0, name |-> "", res |-> [kind |-> "None", value |-> 0]]

EnvIdle ==
    /\ scopes = <<RootScope>>
    /\ lastGet = NoGet

\* ExecSignal
SigNone == [kind |-> "None", value |-> 0]
Return(v) == [kind |-> "Return", value |-> v]
Throw(v) == [kind |-> "Throw", value |-> v]

\* Nothing is allocated yet.
HeapIdle ==
    /\ stores = <<>>
    /\ arrays = <<>>
    /\ byNew = {}
    /\ fieldEvals = 0

\* No expression has been evaluated on its own.
NoEval == [expr |-> "none"]

\* Token { kind, lexeme }
Token(kind, lexeme) == [kind |-> kind, lexeme |-> lexeme]
Eof == Token("Eof", "")

\* Parser { tokens, current: 0 } before parse() runs.
NotParsed == [parsed |-> FALSE]

\* The source is empty and has not been parsed.
ParseIdle == tokens = <<Eof>> /\ current = 0 /\ program = NotParsed

\* Environment::new: functions: HashMap::new() in every scope.
CallIdle == functions = EmptyMap

ExprIdle == lastEval = NoEval /\ ParseIdle /\ CallIdle

\* The statement state while the program is in phase ph of scope 1.
StmtAt(ph) ==
    /\ env = 1
    /\ phase = ph
    /\ pos = 0
    /\ hasCatch = FALSE
    /\ hasFinally = FALSE
    /\ result = SigNone
    /\ ret = SigNone
    /\ catch_env = 0
    /\ pride_env = 0
    /\ env0 = EmptyMap
    /\ trace = <<>>

\* No statement of the evaluator models is under execution.
StmtIdle ==
    /\ StmtAt("idle")
    /\ HeapIdle
    /\ ExprIdle

Init == TimerInit(InstalledByRun, 0..MaxStmts) /\ EnvIdle /\ StmtIdle

\* The evaluator is executing script code (a top-level statement or a
\* callback body) and may make one more call.
Executing == pc \in {"stmt", "cb"} /\ opCount < MaxOps

Panic(why) ==
    /\ pc' = "panic"
    /\ panicWhy' = why

\* eval_expr(Expr::Call) on a bare identifier that is no user function and
\* has no value binding: panic!("Undefined function or callable").
Undefined(name) ==
    /\ Panic("Undefined function or callable")
    /\ UNCHANGED <<bound, nStmts, stmtIdx, final, inPump, opCount, cbId, cbArgs,
                   timers, next_id, chan, thr, sleepLeft, delayOf, flag>>
    /\ UNCHANGED <<passNo, passesDone, noneDone, reg, curRegs, lateTicks>>
    /\ UNCHANGED evalVars

\* The message of timer id has been received by the pump already.
Processed(id) == thr[id] = "sent" /\ \A k \in 1..Len(chan) : chan[k].id # id

\* Messages of id in the channel.
Queued(id) == Cardinality({k \in 1..Len(chan) : chan[k].id = id})

(* ------------------------------ run() ----------------------------------- *)

\* for stmt in statements { ... }: the loop head.
NextStmt ==
    /\ pc = "loop"
    /\ IF stmtIdx < nStmts
       THEN /\ pc' = "stmt"
            /\ stmtIdx' = stmtIdx + 1
            /\ UNCHANGED <<final, inPump, passNo>>
       ELSE \* the loop is over: the final drain
            /\ pc' = "pump"
            /\ final' = TRUE
            /\ inPump' = TRUE
            /\ passNo' = passNo + 1
            /\ UNCHANGED stmtIdx
    /\ opCount' = 0
    /\ UNCHANGED <<bound, nStmts, cbId, cbArgs, timers, next_id, chan, thr,
                   sleepLeft, delayOf, flag, panicWhy>>
    /\ UNCHANGED <<passesDone, noneDone, reg, curRegs, clearedEarly,
                   intervalCleared, lateTicks>>
    /\ UNCHANGED evalVars

\* A statement loop that pumps only in the final drain: a statement ending
\* normally goes straight back to the loop head.
StmtEndNoPump(sig) ==
    /\ pc = "stmt"
    /\ curRegs' = {}
    /\ CASE sig = "None" ->
              /\ pc' = "loop"
              /\ noneDone' = noneDone + 1
              /\ UNCHANGED <<final, inPump, passNo, panicWhy>>
         [] sig = "Return" ->
              /\ pc' = "pump"
              /\ final' = TRUE
              /\ inPump' = TRUE
              /\ passNo' = passNo + 1
              /\ UNCHANGED <<noneDone, panicWhy>>
         [] sig = "Throw" ->
              /\ Panic("Uncaught Pawx error")
              /\ UNCHANGED <<final, inPump, passNo, noneDone>>
    /\ UNCHANGED <<bound, nStmts, stmtIdx, opCount, cbId, cbArgs, timers, next_id,
                   chan, thr, sleepLeft, delayOf, flag>>
    /\ UNCHANGED <<passesDone, reg, clearedEarly, intervalCleared, lateTicks>>
    /\ UNCHANGED evalVars

\* match exec_stmt(stmt, env): None falls to the pump, Return breaks out of
\* the loop (to the final drain), Throw panics.
StmtEndAs(sig) ==
    /\ pc = "stmt"
    /\ curRegs' = {}
    /\ CASE sig = "None" ->
              /\ pc' = "pump"
              /\ inPump' = TRUE
              /\ passNo' = passNo + 1
              /\ noneDone' = noneDone + 1
              /\ UNCHANGED <<final, panicWhy>>
         [] sig = "Return" ->
              /\ pc' = "pump"
              /\ final' = TRUE
              /\ inPump' = TRUE
              /\ passNo' = passNo + 1
              /\ UNCHANGED <<noneDone, panicWhy>>
         [] sig = "Throw" ->
              /\ Panic("Uncaught Pawx error")
              /\ UNCHANGED <<final, inPump, passNo, noneDone>>
    /\ UNCHANGED <<bound, nStmts, stmtIdx, opCount, cbId, cbArgs, timers, next_id,
                   chan, thr, sleepLeft, delayOf, flag>>
    /\ UNCHANGED <<passesDone, reg, clearedEarly, intervalCleared, lateTicks>>
    /\ UNCHANGED evalVars

StmtEnd == \E sig \in {"None", "Return", "Throw"} : StmtEndAs(sig)

(* ------------------- the closures of timers.rs -------------------------- *)

\* What a call leaves alone besides the timer state it names.
CallFrame ==
    /\ opCount' = opCount + 1
    /\ UNCHANGED <<bound, nStmts, stmtIdx, final, inPump, cbId, cbArgs>>
    /\ UNCHANGED <<passNo, passesDone, noneDone>>
    /\ UNCHANGED evalVars

\* A panic!() inside a closure: the evaluator aborts, nothing else changes.
ClosurePanic(why) ==
    /\ Panic(why)
    /\ UNCHANGED <<timers, next_id, chan, thr, sleepLeft, delayOf, flag>>
    /\ UNCHANGED <<reg, curRegs, lateTicks>>

\* History kept at a registration.
Registered(id) ==
    /\ reg' = [reg EXCEPT ![id] = [pass |-> passNo, top |-> ~inPump]]
    /\ curRegs' = curRegs \cup {id}
    /\ UNCHANGED lateTicks

\* The closure bound to "setTimeout" (install_timers; install_set_timeout
\* holds the same body).
SetTimeoutClosure(args) ==
    IF Len(args) # 2 THEN ClosurePanic("setTimeout(fn, ms) requires 2 arguments")
    ELSE IF args[2].tag # "Number" THEN ClosurePanic("setTimeout delay must be a number")
    ELSE IF args[1].tag # "NativeFunction"
         THEN ClosurePanic("setTimeout requires a function as first argument")
    ELSE LET id == next_id IN
         /\ next_id <= MaxTimers
         /\ next_id' = next_id + 1
         /\ timers' = MapInsert(timers, id, TimerEntry(args[1], FALSE, 0))
         \* std::thread::spawn: sleep(ms), then send Timeout(id)
         /\ thr' = [thr EXCEPT ![id] = "tsleep"]
         /\ sleepLeft' = [sleepLeft EXCEPT ![id] = args[2].n]
         /\ delayOf' = [delayOf EXCEPT ![id] = args[2].n]
         /\ Registered(id)
         /\ UNCHANGED <<pc, panicWhy, chan, flag>>

\* The closure install_set_interval binds to "setInterval".
SetIntervalClosure(args) ==
    IF Len(args) # 2 THEN ClosurePanic("setInterval(fn, ms) requires 2 arguments")
    ELSE IF args[2].tag # "Number" THEN ClosurePanic("setInterval delay must be a number")
    ELSE IF args[1].tag # "NativeFunction"
         THEN ClosurePanic("setInterval requires a function as first argument")
    ELSE LET id == next_id IN
         /\ next_id <= MaxTimers
         /\ next_id' = next_id + 1
         \* stop_flag = Arc::new(AtomicBool::new(false))
         /\ flag' = [flag EXCEPT ![id] = FALSE]
         /\ timers' = MapInsert(timers, id, TimerEntry(args[1], TRUE, id))
         \* std::thread::spawn: loop { sleep; if stop_flag { break }; send }
         /\ thr' = [thr EXCEPT ![id] = "isleep"]
         /\ sleepLeft' = [sleepLeft EXCEPT ![id] = args[2].n]
         /\ delayOf' = [delayOf EXCEPT ![id] = args[2].n]
         /\ Registered(id)
         /\ UNCHANGED <<pc, panicWhy, chan>>

\* The closure install_clear_timeout binds to "clearTimeout".
ClearTimeoutClosure(args) ==
    IF Len(args) # 1 THEN ClosurePanic("clearTimeout(id) requires 1 argument")
    ELSE IF args[1].tag # "Number" THEN ClosurePanic("clearTimeout(id) requires a numeric id")
    ELSE LET id == args[1].n IN
         \* timers.borrow_mut().remove(&id)
         /\ timers' = MapRemove(timers, id)
         /\ UNCHANGED <<pc, panicWhy, next_id, chan, thr, sleepLeft, delayOf, flag>>
         /\ UNCHANGED <<reg, curRegs, lateTicks>>

\* The closure install_clear_interval binds to "clearInterval".
ClearIntervalClosure(args) ==
    IF Len(args) # 1 THEN ClosurePanic("clearInterval(id) requires 1 argument")
    ELSE IF args[1].tag # "Number" THEN ClosurePanic("clearInterval(id) requires a numeric id")
    ELSE LET id == args[1].n IN
         \* if let Some(entry) = timers.remove(&id) { if let Some(flag) = entry.cancel_flag
         \*     { flag.store(true) } }
         /\ timers' = MapRemove(timers, id)
         /\ flag' = IF id \in DOMAIN timers /\ timers[id].cancel_flag # 0
                    THEN [flag EXCEPT ![timers[id].cancel_flag] = TRUE]
                    ELSE flag
         /\ lateTicks' = IF id \in Ids THEN [lateTicks EXCEPT ![id] = Queued(id)] ELSE lateTicks
         /\ UNCHANGED <<pc, panicWhy, next_id, chan, thr, sleepLeft, delayOf>>
         /\ UNCHANGED <<reg, curRegs>>

(* --------------- calls made by script code (eval_expr) ------------------ *)

\* Argument vectors a script passes to setTimeout / setInterval.
SetArgs ==
    {<<Lambda, Number(d)>> : d \in 0..MaxDelay}
        \cup {<<Number(0), Number(0)>>, <<Lambda>>, <<Lambda, Lambda>>}

\* Argument vectors a script passes to clearTimeout / clearInterval.
ClearArgs == {<<Number(i)>> : i \in Ids} \cup {<<>>, <<Lambda>>}

\* The id a clear call names, 0 if its arguments name none.
ClearTarget(args) ==
    IF Len(args) = 1 /\ args[1].tag = "Number" /\ args[1].n \in Ids THEN args[1].n ELSE 0

\* A setTimeout that calls the callback at once when the delay is 0 instead
\* of leaving it to the pump.
CallSetTimeoutInline ==
    /\ Executing
    /\ "setTimeout" \in bound
    /\ next_id <= MaxTimers
    /\ next_id' = next_id + 1
    /\ thr' = [thr EXCEPT ![next_id] = "sent"]
    /\ delayOf' = [delayOf EXCEPT ![next_id] = 0]
    /\ reg' = [reg EXCEPT ![next_id] = [pass |-> passNo, top |-> ~inPump]]
    /\ curRegs' = curRegs \cup {next_id}
    /\ pc' = "cb"
    /\ cbId' = next_id
    /\ cbArgs' = <<>>
    /\ opCount' = opCount + 1
    /\ UNCHANGED <<bound, nStmts, stmtIdx, final, inPump, timers, chan, sleepLeft,
                   flag, panicWhy>>
    /\ UNCHANGED <<passNo, passesDone, noneDone, clearedEarly, intervalCleared,
                   lateTicks>>
    /\ UNCHANGED evalVars

\* Expr::Call, callee Identifier("setTimeout")
CallSetTimeout ==
    /\ Executing
    /\ \E args \in SetArgs :
         IF "setTimeout" \in bound
         THEN SetTimeoutClosure(args) /\ CallFrame
         ELSE Undefined("setTimeout")
    /\ UNCHANGED <<clearedEarly, intervalCleared>>

\* Expr::Call, callee Identifier("setInterval")
CallSetInterval ==
    /\ Executing
    /\ \E args \in SetArgs :
         IF "setInterval" \in bound
         THEN SetIntervalClosure(args) /\ CallFrame
         ELSE Undefined("setInterval")
    /\ UNCHANGED <<clearedEarly, intervalCleared>>

\* Expr::Call, callee Identifier("clearTimeout")
CallClearTimeout ==
    /\ Executing
    /\ \E args \in ClearArgs :
         /\ IF "clearTimeout" \in bound
            THEN ClearTimeoutClosure(args) /\ CallFrame
            ELSE Undefined("clearTimeout")
         /\ clearedEarly' =
              IF ClearTarget(args) # 0 /\ thr[ClearTarget(args)] \in {"tsleep", "sent"}
                 /\ ~Processed(ClearTarget(args))
              THEN clearedEarly \cup {ClearTarget(args)}
              ELSE clearedEarly
    /\ UNCHANGED intervalCleared

\* Expr::Call, callee Identifier("clearInterval")
CallClearInterval ==
    /\ Executing
    /\ \E args \in ClearArgs :
         /\ IF "clearInterval" \in bound
            THEN ClearIntervalClosure(args) /\ CallFrame
            ELSE Undefined("clearInterval")
         /\ intervalCleared' =
              IF ClearTarget(args) # 0 /\ thr[ClearTarget(args)] # "none"
              THEN intervalCleared \cup {ClearTarget(args)}
              ELSE intervalCleared
    /\ UNCHANGED clearedEarly

(* ---------------------------- pump_timers ------------------------------- *)

\* f(vec![]): the callback of timer id is called on the evaluator's thread.
Invoke(id) ==
    /\ pc' = "cb"
    /\ cbId' = id
    /\ cbArgs' = <<>>
    /\ opCount' = 0

NoInvoke == UNCHANGED <<pc, cbId, cbArgs, opCount>>

\* One turn of the loop of pump_timers with a message received.
PumpRecv ==
    /\ pc = "pump"
    /\ chan # <<>>
    /\ LET msg == Head(chan) IN
       /\ chan' = Tail(chan)
       /\ IF msg.kind = "Timeout"
          THEN \* let entry = timers.remove(&id); if let Some(entry) ... f(vec![])
               /\ timers' = MapRemove(timers, msg.id)
               /\ IF msg.id \in DOMAIN timers
                     /\ timers[msg.id].callback.tag = "NativeFunction"
                  THEN Invoke(msg.id)
                  ELSE NoInvoke
          ELSE \* map.get(&id).map(|e| e.callback.clone())
               /\ UNCHANGED timers
               /\ IF msg.id \in DOMAIN timers
                     /\ timers[msg.id].callback.tag = "NativeFunction"
                  THEN Invoke(msg.id)
                  ELSE NoInvoke
    /\ UNCHANGED <<bound, nStmts, stmtIdx, final, inPump, next_id, thr, sleepLeft,
                   delayOf, flag, panicWhy>>
    /\ UNCHANGED timerHist
    /\ UNCHANGED evalVars

\* A dispatch step that returns only when no timeout thread is still asleep.
PumpExitWaits ==
    /\ \A id \in Ids : thr[id] # "tsleep"
    /\ pc = "pump"
    /\ chan = <<>>
    /\ pc' = IF final THEN "done" ELSE "loop"
    /\ inPump' = FALSE
    /\ passesDone' = passesDone + 1
    /\ UNCHANGED <<bound, nStmts, stmtIdx, final, opCount, cbId, cbArgs, timers,
                   next_id, chan, thr, sleepLeft, delayOf, flag, panicWhy>>
    /\ UNCHANGED <<passNo, noneDone, reg, curRegs, clearedEarly, intervalCleared,
                   lateTicks>>
    /\ UNCHANGED evalVars

\* try_recv() finds the channel empty: pump_timers returns.
PumpExit ==
    /\ pc = "pump"
    /\ chan = <<>>
    /\ pc' = IF final THEN "done" ELSE "loop"
    /\ inPump' = FALSE
    /\ passesDone' = passesDone + 1
    /\ UNCHANGED <<bound, nStmts, stmtIdx, final, opCount, cbId, cbArgs, timers,
                   next_id, chan, thr, sleepLeft, delayOf, flag, panicWhy>>
    /\ UNCHANGED <<passNo, noneDone, reg, curRegs, clearedEarly, intervalCleared,
                   lateTicks>>
    /\ UNCHANGED evalVars

\* The callback body ends (falls off its end, returns or throws: the lambda
\* returns a value either way) and control is back in its caller.
CbEnd ==
    /\ pc = "cb"
    /\ pc' = IF inPump THEN "pump" ELSE "stmt"
    /\ cbId' = 0
    /\ curRegs' = {}
    /\ UNCHANGED <<bound, nStmts, stmtIdx, final, inPump, opCount, cbArgs, timers,
                   next_id, chan, thr, sleepLeft, delayOf, flag, panicWhy>>
    /\ UNCHANGED <<passNo, passesDone, noneDone, reg, clearedEarly, intervalCleared,
                   lateTicks>>
    /\ UNCHANGED evalVars

(* ------------------------- background threads --------------------------- *)

\* The process lives: its threads run.
Alive == pc \notin {"done", "panic"}

ThreadFrame ==
    /\ UNCHANGED <<bound, nStmts, stmtIdx, pc, final, inPump, opCount, cbId, cbArgs,
                   timers, next_id, delayOf, flag, panicWhy>>
    /\ UNCHANGED <<passNo, passesDone, noneDone, reg, curRegs, clearedEarly,
                   intervalCleared>>
    /\ UNCHANGED evalVars

\* One tick of the clock: every sleeping thread has one tick less to sleep.
Tick ==
    /\ Alive
    /\ \E i \in Ids : thr[i] \in {"tsleep", "isleep"} /\ sleepLeft[i] > 0
    /\ sleepLeft' = [i \in Ids |->
                       IF thr[i] \in {"tsleep", "isleep"} /\ sleepLeft[i] > 0
                       THEN sleepLeft[i] - 1 ELSE sleepLeft[i]]
    /\ UNCHANGED <<chan, thr, lateTicks>>
    /\ ThreadFrame

\* A setTimeout thread that calls the callback itself when its sleep is over,
\* interrupting the statement the evaluator is executing.
TimeoutThreadInvokes(id) ==
    /\ Alive
    /\ thr[id] = "tsleep"
    /\ sleepLeft[id] = 0
    /\ pc = "stmt"
    /\ id \in DOMAIN timers
    /\ thr' = [thr EXCEPT ![id] = "sent"]
    /\ timers' = MapRemove(timers, id)
    /\ pc' = "cb"
    /\ cbId' = id
    /\ cbArgs' = <<>>
    /\ UNCHANGED <<bound, nStmts, stmtIdx, final, inPump, opCount, next_id, chan,
                   sleepLeft, delayOf, flag, panicWhy>>
    /\ UNCHANGED timerHist
    /\ UNCHANGED evalVars

\* The setTimeout thread: its sleep is over, tx.send(Timeout(id)).
TimeoutThreadSend(id) ==
    /\ Alive
    /\ thr[id] = "tsleep"
    /\ sleepLeft[id] = 0
    /\ chan' = Append(chan, Timeout(id))
    /\ thr' = [thr EXCEPT ![id] = "sent"]
    /\ UNCHANGED <<sleepLeft, lateTicks>>
    /\ ThreadFrame

\* The setInterval thread: its sleep is over, stop_flag.load().
IntervalWake(id) ==
    /\ Alive
    /\ thr[id] = "isleep"
    /\ sleepLeft[id] = 0
    /\ thr' = [thr EXCEPT ![id] = IF flag[id] THEN "exit" ELSE "loaded"]
    /\ UNCHANGED <<chan, sleepLeft, lateTicks>>
    /\ ThreadFrame

\* The setInterval thread: the flag read false, tx.send(IntervalTick(id)),
\* then the next sleep.
IntervalSend(id) ==
    /\ Alive
    /\ thr[id] = "loaded"
    /\ Len(chan) < MaxQueue
    /\ chan' = Append(chan, IntervalTick(id))
    /\ thr' = [thr EXCEPT ![id] = "isleep"]
    /\ sleepLeft' = [sleepLeft EXCEPT ![id] = delayOf[id]]
    /\ lateTicks' = IF id \in intervalCleared /\ lateTicks[id] <= MaxQueue
                    THEN [lateTicks EXCEPT ![id] = lateTicks[id] + 1]
                    ELSE lateTicks
    /\ ThreadFrame

(* --------------------------- specifications ----------------------------- *)

Evaluator ==
    \/ NextStmt
    \/ StmtEnd
    \/ CallSetTimeout
    \/ CallSetInterval
    \/ CallClearTimeout
    \/ CallClearInterval
    \/ PumpRecv
    \/ PumpExit
    \/ CbEnd

\* run() as built: the interval thread is never spawned.
Next ==
    \/ Evaluator
    \/ Tick
    \/ \E id \in Ids : TimeoutThreadSend(id)

Spec == Init /\ [][Next]_vars

\* The runtime with every closure of timers.rs bound in the root scope.
InitInstalled == TimerInit(InstalledByAll, 0..MaxStmts) /\ EnvIdle /\ StmtIdle

NextInstalled ==
    \/ Evaluator
    \/ Tick
    \/ \E id \in Ids : TimeoutThreadSend(id)
    \/ \E id \in Ids : IntervalWake(id)
    \/ \E id \in Ids : IntervalSend(id)

SpecInstalled == InitInstalled /\ [][NextInstalled]_vars

(* ------------------ Environment (environment.rs) ------------------------ *)

\* Scopes a program of the scope-chain model allocates (the root included).
MaxScopes == 3

\* Names the programs of the evaluator models declare and look up.
Names == {"x", "y"}

\* enum Access
Access == {"Public", "Private", "Protected"}

\* Option<Value> as returned by Environment.get, or the panic it ends in.
Some(v) == [kind |-> "Some", value |-> v]
None == [kind |-> "None", value |-> 0]
AccessViolation == [kind |-> "PrivateAccessViolation", value |-> 0]

\* Environment::new(parent)
EnvNew(sc, parent) == Append(sc, [parent |-> parent, values |-> EmptyMap])

\* define_public / define_private / define_protected: values.insert(name,
\* EnvEntry { value, access })
EnvDefine(sc, s, name, v, access) ==
    [sc EXCEPT ![s].values = MapInsert(@, name, [value |-> v, access |-> access])]

RECURSIVE EnvGetSilentMiss(_, _, _, _)
\* A get that treats a Private binding seen from a child scope as a miss
\* and goes on to the parent.
EnvGetSilentMiss(sc, s, name, is_child_scope) ==
    IF name \in DOMAIN sc[s].values
       /\ ~(sc[s].values[name].access = "Private" /\ is_child_scope)
    THEN Some(sc[s].values[name].value)
    ELSE IF sc[s].parent # 0
         THEN EnvGetSilentMiss(sc, sc[s].parent, name, TRUE)
         ELSE None

RECURSIVE EnvGet(_, _, _, _)
\* Environment::get(&self, name, is_child_scope)
EnvGet(sc, s, name, is_child_scope) ==
    IF name \in DOMAIN sc[s].values
    THEN CASE sc[s].values[name].access = "Public" -> Some(sc[s].values[name].value)
           [] sc[s].values[name].access = "Private" ->
                IF ~is_child_scope
                THEN Some(sc[s].values[name].value)
                ELSE AccessViolation
           [] sc[s].values[name].access = "Protected" -> Some(sc[s].values[name].value)
    ELSE IF sc[s].parent # 0
         THEN EnvGet(sc, sc[s].parent, name, TRUE)
         ELSE None

\* A private-access panic has aborted the program.
EnvAborted == lastGet.res.kind = "PrivateAccessViolation"

EnvFrame == UNCHANGED <<timerVars, timerHist, stmtVars, heapVars, exprVars>>

\* A block, call or lambda body is entered: Environment::new(Some(parent)).
EnvEnter(parent) ==
    /\ ~EnvAborted
    /\ Len(scopes) < MaxScopes
    /\ scopes' = EnvNew(scopes, parent)
    /\ lastGet' = NoGet
    /\ EnvFrame

\* A declaration executes in scope s (pride / den / lair name = value). The
\* value bound is the number of the declaring scope, so the value a lookup
\* returns tells which binding it found.
EnvDeclare(s, name, access) ==
    /\ ~EnvAborted
    /\ scopes' = EnvDefine(scopes, s, name, s, access)
    /\ scopes' # scopes
    /\ lastGet' = NoGet
    /\ EnvFrame

\* Expr::Identifier(name) evaluated in scope s: env.borrow().get(&name, false)
EnvLookup(s, name) ==
    /\ ~EnvAborted
    /\ lastGet' = [from |-> s, name |-> name, res |-> EnvGet(scopes, s, name, FALSE)]
    /\ lastGet' # lastGet
    /\ UNCHANGED scopes
    /\ EnvFrame

InitEnv == TimerIdle /\ EnvIdle /\ StmtIdle

NextEnv ==
    \/ \E parent \in 1..Len(scopes) : EnvEnter(parent)
    \/ \E s \in 1..Len(scopes), name \in Names, access \in Access : EnvDeclare(s, name, access)
    \/ \E s \in 1..Len(scopes), name \in Names : EnvLookup(s, name)

SpecEnv == InitEnv /\ [][NextEnv]_vars

(* ------------------ Stmt::Try (statements.rs) --------------------------- *)

\* Statements a block of the statement models holds at most.
MaxBlock == 2

\* The name a catch clause binds.
CatchParam == "e"

\* Values the literals of a program denote.
Literals == {Number(1), Number(2)}

\* Value::Error { message }
Error(m) == [tag |-> "Error", message |-> m]

\* The message of the PawxError a failing statement returns.
Failure == "runtime error"

\* The statements a block is made of: an expression statement, return and
\* throw of a literal or of the identifier e, and a statement whose
\* evaluation returns Err(PawxError).
Operands == [lit : Literals] \cup {[id |-> CatchParam]}
BlockStmts ==
    {[op |-> "expr"], [op |-> "fail"]}
        \cup [op : {"return", "throw"}, arg : Operands]

\* Expr::Literal(v) and Expr::Identifier(name): the value, or the panic
\* "Undefined variable" / "Private access violation".
EvalOperand(sc, s, arg) ==
    IF "lit" \in DOMAIN arg
    THEN Some(arg.lit)
    ELSE EnvGet(sc, s, arg.id, FALSE)

\* What exec_stmt(stmt, env) returns: Ok(signal), Err(e), or a panic.
ExecStmt(sc, s, stmt) ==
    CASE stmt.op = "expr" -> [kind |-> "None", value |-> 0]
      [] stmt.op = "fail" -> [kind |-> "Err", value |-> Failure]
      [] stmt.op \in {"return", "throw"} ->
           IF EvalOperand(sc, s, stmt.arg).kind = "Some"
           THEN [kind |-> IF stmt.op = "return" THEN "Return" ELSE "Throw",
                 value |-> EvalOperand(sc, s, stmt.arg).value]
           ELSE [kind |-> "Panic", value |-> 0]

Entered(blk) == [blk |-> blk, out |-> [kind |-> "enter", value |-> 0]]
Ran(blk, out) == [blk |-> blk, out |-> out]

TryFrame ==
    UNCHANGED <<timerVars, timerHist, lastGet, env, hasCatch, hasFinally, pride_env,
                env0, heapVars, exprVars>>

\* The try/catch part is over and the finally block is reached only when
\* the result is not a Return.
ToFinallyUnlessReturn(r, tr) ==
    /\ result' = r
    /\ pos' = 0
    /\ IF hasFinally /\ r.kind # "Return"
       THEN /\ phase' = "finally"
            /\ trace' = Append(tr, Entered("finally"))
            /\ UNCHANGED ret
       ELSE /\ phase' = "done"
            /\ trace' = tr
            /\ ret' = r

\* The try/catch part is over with `result` r: the finally block, when there
\* is one, runs next; otherwise Ok(result) is returned.
ToFinally(r, tr) ==
    /\ result' = r
    /\ pos' = 0
    /\ IF hasFinally
       THEN /\ phase' = "finally"
            /\ trace' = Append(tr, Entered("finally"))
            /\ UNCHANGED ret
       ELSE /\ phase' = "done"
            /\ trace' = tr
            /\ ret' = r

\* The process panics inside the statement.
Abort(tr) ==
    /\ phase' = "abort"
    /\ trace' = tr
    /\ UNCHANGED <<pos, result, ret, catch_env, scopes>>

\* A catch handler that binds the parameter in the scope of the try
\* statement itself.
CaughtInPlace(err, tr) ==
    IF hasCatch
    THEN /\ scopes' = EnvDefine(scopes, env, CatchParam, err, "Public")
         /\ catch_env' = env
         /\ phase' = "catch"
         /\ pos' = 0
         /\ trace' = Append(tr, Entered("catch"))
         /\ UNCHANGED <<result, ret>>
    ELSE /\ ToFinally(Throw(err), tr)
         /\ UNCHANGED <<catch_env, scopes>>

\* A thrown value err reaches the handler of the try loop: the catch body is
\* entered in a new scope binding the parameter, or the throw is the result.
Caught(err, tr) ==
    IF hasCatch
    THEN /\ scopes' = EnvDefine(EnvNew(scopes, env), Len(scopes) + 1,
                                CatchParam, err, "Public")
         /\ catch_env' = Len(scopes) + 1
         /\ phase' = "catch"
         /\ pos' = 0
         /\ trace' = Append(tr, Entered("catch"))
         /\ UNCHANGED <<result, ret>>
    ELSE /\ ToFinally(Throw(err), tr)
         /\ UNCHANGED <<catch_env, scopes>>

\* for stmt in try_block { match exec_stmt(stmt, env.clone()) { ... } }
TryStmt(stmt) ==
    /\ phase = "try"
    /\ pos < MaxBlock
    /\ LET out == ExecStmt(scopes, env, stmt)
           tr == Append(trace, Ran("try", out))
       IN  CASE out.kind = "None" ->
                  /\ pos' = pos + 1
                  /\ trace' = tr
                  /\ UNCHANGED <<phase, result, ret, catch_env, scopes>>
             [] out.kind = "Return" ->
                  /\ ToFinally(Return(out.value), tr)
                  /\ UNCHANGED <<catch_env, scopes>>
             [] out.kind = "Throw" -> Caught(out.value, tr)
             [] out.kind = "Err" -> Caught(Error(out.value), tr)
             [] out.kind = "Panic" -> Abort(tr)
    /\ TryFrame

\* The try block has no further statement.
TryEnd ==
    /\ phase = "try"
    /\ ToFinally(result, trace)
    /\ UNCHANGED <<catch_env, scopes>>
    /\ TryFrame

\* for cstmt in catch_body { match exec_stmt(cstmt, catch_env.clone()) { ... } }
CatchStmt(stmt) ==
    /\ phase = "catch"
    /\ pos < MaxBlock
    /\ LET out == ExecStmt(scopes, catch_env, stmt)
           tr == Append(trace, Ran("catch", out))
       IN  CASE out.kind = "None" ->
                  /\ pos' = pos + 1
                  /\ trace' = tr
                  /\ UNCHANGED <<phase, result, ret>>
             [] out.kind \in {"Return", "Throw"} ->
                  ToFinally([kind |-> out.kind, value |-> out.value], tr)
             [] out.kind = "Err" -> ToFinally(Throw(Error(out.value)), tr)
             [] out.kind = "Panic" ->
                  /\ phase' = "abort"
                  /\ trace' = tr
                  /\ UNCHANGED <<pos, result, ret>>
    /\ UNCHANGED <<catch_env, scopes>>
    /\ TryFrame

\* The catch body has no further statement.
CatchEnd ==
    /\ phase = "catch"
    /\ ToFinally(result, trace)
    /\ UNCHANGED <<catch_env, scopes>>
    /\ TryFrame

\* for fstmt in finally_body { match exec_stmt(fstmt, env.clone()) { ... } }
FinallyStmt(stmt) ==
    /\ phase = "finally"
    /\ pos < MaxBlock
    /\ LET out == ExecStmt(scopes, env, stmt)
           tr == Append(trace, Ran("finally", out))
       IN  CASE out.kind = "None" ->
                  /\ pos' = pos + 1
                  /\ trace' = tr
                  /\ UNCHANGED <<phase, ret>>
             [] out.kind \in {"Return", "Throw"} ->
                  /\ ret' = [kind |-> out.kind, value |-> out.value]
                  /\ phase' = "done"
                  /\ trace' = tr
                  /\ UNCHANGED pos
             [] out.kind = "Err" ->
                  /\ ret' = Throw(Error(out.value))
                  /\ phase' = "done"
                  /\ trace' = tr
                  /\ UNCHANGED pos
             [] out.kind = "Panic" ->
                  /\ phase' = "abort"
                  /\ trace' = tr
                  /\ UNCHANGED <<pos, ret>>
    /\ UNCHANGED <<result, catch_env, scopes>>
    /\ TryFrame

\* The finally block has no further statement: Ok(result).
FinallyEnd ==
    /\ phase = "finally"
    /\ ret' = result
    /\ phase' = "done"
    /\ UNCHANGED <<pos, result, catch_env, scopes, trace>>
    /\ TryFrame

\* A try statement is about to execute, at the top level or in a child scope.
InitTry ==
    /\ TimerIdle
    /\ lastGet = NoGet
    /\ scopes \in {<<RootScope>>, EnvNew(<<RootScope>>, 1)}
    /\ env = Len(scopes)
    /\ phase = "try"
    /\ pos = 0
    /\ hasCatch \in BOOLEAN
    /\ hasFinally \in BOOLEAN
    /\ result = SigNone
    /\ ret = SigNone
    /\ catch_env = 0
    /\ pride_env = 0
    /\ env0 = EmptyMap
    /\ trace = <<Entered("try")>>
    /\ HeapIdle
    /\ ExprIdle

NextTry ==
    \/ \E stmt \in BlockStmts : TryStmt(stmt)
    \/ TryEnd
    \/ \E stmt \in BlockStmts : CatchStmt(stmt)
    \/ CatchEnd
    \/ \E stmt \in BlockStmts : FinallyStmt(stmt)
    \/ FinallyEnd

SpecTry == InitTry /\ [][NextTry]_vars

(* ------------- Stmt::If and Stmt::While (statements.rs) ----------------- *)

\* The conditions of the if and while statements of a program: literals, the
\* identifier e, and an expression whose evaluation returns Err(PawxError).
Conditions ==
    [lit : {Number(0), [tag |-> "Null"], [tag |-> "Bool", b |-> TRUE],
            [tag |-> "Bool", b |-> FALSE], [tag |-> "String", s |-> ""],
            [tag |-> "String", s |-> "a"]}]
        \cup {[id |-> CatchParam], [fail |-> TRUE]}

\* The statement a branch or a loop body is made of.
BranchStmts == {[op |-> "expr"], [op |-> "throw", arg |-> [lit |-> Number(1)]]}

\* if (cond) { then } [else { else }] and while (cond) { body }
NoElse == [op |-> "none"]
CondStmts ==
    [op : {"if"}, cond : Conditions, then : BranchStmts,
     else : {NoElse, [op |-> "throw", arg |-> [lit |-> Number(2)]]}]
        \cup [op : {"while"}, cond : Conditions, body : BranchStmts]

\* let cond_val = eval_expr(condition, env.clone()): Ok(v), Err(e), or the
\* panic of eval_expr.
EvalCondition(sc, s, cond) ==
    IF "fail" \in DOMAIN cond
    THEN [kind |-> "Err", value |-> Error(Failure)]
    ELSE IF EvalOperand(sc, s, cond).kind = "Some"
         THEN [kind |-> "Ok", value |-> EvalOperand(sc, s, cond).value]
         ELSE [kind |-> "Panic", value |-> Error("Undefined variable")]

\* let truthy = match cond_val { Ok(Bool(b)) => b, Ok(Number(n)) => n != 0.0,
\*                               Ok(Null) => false, _ => true }
Truthy(cond_val) ==
    IF cond_val.kind = "Ok"
    THEN CASE cond_val.value.tag = "Bool" -> cond_val.value.b
           [] cond_val.value.tag = "Number" -> cond_val.value.n # 0
           [] cond_val.value.tag = "Null" -> FALSE
           [] OTHER -> TRUE
    ELSE TRUE

\* match exec_stmt(s, env) { Ok(ExecSignal::None) => {}, other => return other }
\* on the one statement of a branch: what the if statement returns.
ExecBranch(sc, s, stmt) == ExecStmt(sc, s, stmt)

\* exec_stmt(Stmt::If): the outcome, the condition value and the branch run.
ExecIf(sc, s, stmt) ==
    LET cond_val == EvalCondition(sc, s, stmt.cond)
    IN  IF cond_val.kind = "Panic"
        THEN [kind |-> "Panic", value |-> 0, cond |-> cond_val, ran |-> "none"]
        ELSE IF Truthy(cond_val)
             THEN ExecBranch(sc, s, stmt.then) @@ [cond |-> cond_val, ran |-> "then"]
             ELSE IF stmt.else # NoElse
                  THEN ExecBranch(sc, s, stmt.else) @@ [cond |-> cond_val, ran |-> "else"]
                  ELSE [kind |-> "None", value |-> 0, cond |-> cond_val, ran |-> "none"]

\* exec_stmt(Stmt::While): the condition of the programs does not change, so
\* a loop whose condition counts as true and whose body signals nothing
\* never ends (kind "Diverge").
ExecWhile(sc, s, stmt) ==
    LET cond_val == EvalCondition(sc, s, stmt.cond)
    IN  IF cond_val.kind = "Panic"
        THEN [kind |-> "Panic", value |-> 0, cond |-> cond_val, ran |-> "none"]
        ELSE IF ~Truthy(cond_val)
             THEN [kind |-> "None", value |-> 0, cond |-> cond_val, ran |-> "none"]
             ELSE IF ExecBranch(sc, s, stmt.body).kind = "None"
                  THEN [kind |-> "Diverge", value |-> 0, cond |-> cond_val, ran |-> "body"]
                  ELSE ExecBranch(sc, s, stmt.body) @@ [cond |-> cond_val, ran |-> "body"]

ExecCond(sc, s, stmt) == IF stmt.op = "if" THEN ExecIf(sc, s, stmt) ELSE ExecWhile(sc, s, stmt)

\* The if or while statement a try block begins with executes.
TryCondStmt(stmt) ==
    /\ phase = "try"
    /\ pos = 0
    /\ LET out == ExecCond(scopes, env, stmt)
           tr == Append(trace, [blk |-> "try", out |-> out, stmt |-> stmt])
       IN  CASE out.kind = "None" ->
                  /\ pos' = pos + 1
                  /\ trace' = tr
                  /\ UNCHANGED <<phase, result, ret, catch_env, scopes>>
             [] out.kind = "Return" ->
                  /\ ToFinally(Return(out.value), tr)
                  /\ UNCHANGED <<catch_env, scopes>>
             [] out.kind = "Throw" -> Caught(out.value, tr)
             [] out.kind = "Err" -> Caught(Error(out.value), tr)
             [] out.kind = "Panic" -> Abort(tr)
             [] out.kind = "Diverge" ->
                  /\ phase' = "loop"
                  /\ trace' = tr
                  /\ UNCHANGED <<pos, result, ret, catch_env, scopes>>
    /\ TryFrame

NextCond ==
    \/ \E stmt \in CondStmts : TryCondStmt(stmt)
    \/ \E stmt \in BlockStmts : TryStmt(stmt)
    \/ TryEnd
    \/ \E stmt \in BlockStmts : CatchStmt(stmt)
    \/ CatchEnd
    \/ \E stmt \in BlockStmts : FinallyStmt(stmt)
    \/ FinallyEnd

SpecCond == InitTry /\ [][NextCond]_vars

(* ------------------ Stmt::Pride (statements.rs) ------------------------- *)

\* The name the pride block is declared under.
PrideName == "P"

\* Value::Object { fields }: fields is the number of a field map of stores.
Object(fields) == [tag |-> "Object", fields |-> fields]

\* The statements of a pride body: those of a block, with identifiers drawn
\* from Names, and the three declarations of a literal.
PrideStmts ==
    {[op |-> "expr"], [op |-> "fail"]}
        \cup [op : {"return", "throw"}, arg : [lit : Literals] \cup [id : Names]]
        \cup [op : {"decl"}, access : Access, name : Names, arg : [lit : Literals]]

\* The value tables an enclosing scope starts with: x and the pride's own
\* name, each unbound or bound.
EnclosingTables ==
    {EmptyMap,
     MapInsert(EmptyMap, "x", [value |-> Number(0), access |-> "Public"]),
     MapInsert(EmptyMap, PrideName, [value |-> Number(0), access |-> "Private"]),
     MapInsert(MapInsert(EmptyMap, "x", [value |-> Number(0), access |-> "Private"]),
               PrideName, [value |-> Number(0), access |-> "Public"])}

\* Fields that also take in the bindings of the enclosing scope.
PrideFieldsWithAncestors(sc, p) ==
    [k \in DOMAIN sc[p].values \cup DOMAIN sc[sc[p].parent].values |->
        IF k \in DOMAIN sc[p].values
        THEN sc[p].values[k].value
        ELSE sc[sc[p].parent].values[k].value]

\* for (k, v) in &pride_env.borrow().values { fields.insert(k, v.value) }
PrideFields(sc, p) == [k \in DOMAIN sc[p].values |-> sc[p].values[k].value]

PrideFrame ==
    UNCHANGED <<timerVars, timerHist, lastGet, env, hasCatch, hasFinally, result,
                catch_env, env0, arrays, byNew, fieldEvals, exprVars>>

\* let pride_env = Environment::new(Some(env.clone()))
PrideEnter ==
    /\ phase = "start"
    /\ scopes' = EnvNew(scopes, env)
    /\ pride_env' = Len(scopes) + 1
    /\ phase' = "body"
    /\ trace' = Append(trace, Entered("pride"))
    /\ UNCHANGED <<pos, ret, stores>>
    /\ PrideFrame

\* for stmt in body { match exec_stmt(stmt, pride_env.clone()) { ... } }
PrideStmt(stmt) ==
    /\ phase = "body"
    /\ pos < MaxBlock
    /\ IF stmt.op = "decl"
       THEN /\ scopes' = EnvDefine(scopes, pride_env, stmt.name, stmt.arg.lit, stmt.access)
            /\ pos' = pos + 1
            /\ trace' = Append(trace, [blk |-> "pride", out |-> SigNone, stmt |-> stmt])
            /\ UNCHANGED <<phase, ret>>
       ELSE LET out == ExecStmt(scopes, pride_env, stmt)
                tr == Append(trace, [blk |-> "pride", out |-> out, stmt |-> stmt])
            IN  /\ trace' = tr
                /\ UNCHANGED scopes
                /\ CASE out.kind = "None" ->
                          /\ pos' = pos + 1
                          /\ UNCHANGED <<phase, ret>>
                     [] out.kind \in {"Return", "Throw"} ->
                          /\ ret' = [kind |-> out.kind, value |-> out.value]
                          /\ phase' = "done"
                          /\ UNCHANGED pos
                     [] out.kind = "Err" ->
                          /\ ret' = Throw(Error(out.value))
                          /\ phase' = "done"
                          /\ UNCHANGED pos
                     [] out.kind = "Panic" ->
                          /\ phase' = "abort"
                          /\ UNCHANGED <<pos, ret>>
    /\ UNCHANGED <<pride_env, stores>>
    /\ PrideFrame

\* The body has no further statement: env.define_public(name, Object { fields })
PrideEnd ==
    /\ phase = "body"
    /\ stores' = Append(stores, PrideFields(scopes, pride_env))
    /\ scopes' = EnvDefine(scopes, env, PrideName, Object(Len(stores) + 1), "Public")
    /\ ret' = SigNone
    /\ phase' = "done"
    /\ UNCHANGED <<pos, pride_env, trace>>
    /\ PrideFrame

\* A pride statement is about to execute in a scope that holds some bindings.
InitPride ==
    /\ TimerIdle
    /\ lastGet = NoGet
    /\ \E t \in EnclosingTables : /\ scopes = <<[parent |-> 0, values |-> t]>>
                                  /\ env0 = t
    /\ env = 1
    /\ phase = "start"
    /\ pos = 0
    /\ hasCatch = FALSE
    /\ hasFinally = FALSE
    /\ result = SigNone
    /\ ret = SigNone
    /\ catch_env = 0
    /\ pride_env = 0
    /\ trace = <<>>
    /\ HeapIdle
    /\ ExprIdle

NextPride ==
    \/ PrideEnter
    \/ \E stmt \in PrideStmts : PrideStmt(stmt)
    \/ PrideEnd

SpecPride == InitPride /\ [][NextPride]_vars

(* ---------- classes: Stmt::Clowder, Expr::New, Expr::Set, Expr::Get ----- *)

\* Field maps a program of the class model allocates with object literals.
MaxObjects == 2

\* The class the programs declare, its fields, and their variables.
ClassName == "C"
FieldNames == {"n", "arr"}

\* The method the class declares as well, m(p) { this.n = p; }, and the
\* properties the programs read.
MethodName == "m"
PropertyNames == FieldNames \cup {MethodName}
Vars == {"a", "b"}

\* Value::Array { values, proto }: values is the number of a store of arrays.
Array(values) == [tag |-> "Array", values |-> values]

\* Value::Class { name, methods, getters, setters, fields }
Class(name, fields) == [tag |-> "Class", name |-> name, fields |-> fields]

\* Value::Null
Null == [tag |-> "Null"]

\* call_value(callee_val, arguments, env) for a callee that is no native
\* function: the value passes through.
CallValue(callee_val) ==
    IF callee_val.tag = "NativeFunction" THEN Null ELSE callee_val

\* The timer runtime and the statement state stay as they are; panicWhy
\* takes the message when the evaluator panics.
ClassStmtFrame ==
    /\ UNCHANGED <<bound, nStmts, stmtIdx, pc, final, inPump, opCount, cbId, cbArgs,
                   timers, next_id, chan, thr, sleepLeft, delayOf, flag>>
    /\ UNCHANGED <<timerHist, lastGet, env, pos, hasCatch, hasFinally, result, ret,
                   catch_env, pride_env, env0, trace, parseVars, callVars>>

\* The same for a statement that is no expression statement.
ClassFrame == ClassStmtFrame /\ UNCHANGED lastEval

\* The evaluator panicked: the process is gone, the expression has no value.
Panicked(why) == [tag |-> "Panic", message |-> why]

\* The evaluator panics with message why.
ClassPanic(why) ==
    /\ phase' = "abort"
    /\ panicWhy' = why
    /\ UNCHANGED <<scopes, stores, arrays, byNew, fieldEvals>>

\* clowder C { pride n = lit; pride arr = [elems]; }: each field initializer
\* is evaluated now and the Class value is bound under the class name.
ClowderStmt(lit, elems) ==
    /\ phase = "run"
    /\ ClassName \notin DOMAIN scopes[env].values
    /\ arrays' = Append(arrays, elems)
    /\ fieldEvals' = fieldEvals + 1
    /\ scopes' = EnvDefine(scopes, env, ClassName,
                           Class(ClassName,
                                 MapInsert(MapInsert(EmptyMap, "n", lit),
                                           "arr", Array(Len(arrays) + 1))),
                           "Public")
    /\ UNCHANGED <<phase, panicWhy, stores, byNew>>
    /\ ClassFrame

\* pride var = new C(); Expr::New is evaluated as the call C(): no function
\* C exists, so the value bound to C goes through call_value.
NewStmt(var) ==
    /\ phase = "run"
    /\ LET callee_val == EnvGet(scopes, env, ClassName, FALSE)
       IN  IF callee_val.kind = "Some"
           THEN /\ scopes' = EnvDefine(scopes, env, var, CallValue(callee_val.value),
                                       "Public")
                /\ byNew' = byNew \cup {var}
                /\ UNCHANGED <<phase, panicWhy, stores, arrays, fieldEvals>>
           ELSE ClassPanic("Undefined function or callable")
    /\ ClassFrame

\* pride var = {}; Expr::ObjectLiteral allocates an empty field map.
ObjectStmt(var) ==
    /\ phase = "run"
    /\ Len(stores) < MaxObjects
    /\ stores' = Append(stores, EmptyMap)
    /\ scopes' = EnvDefine(scopes, env, var, Object(Len(stores) + 1), "Public")
    /\ byNew' = byNew \ {var}
    /\ UNCHANGED <<phase, panicWhy, arrays, fieldEvals>>
    /\ ClassFrame

\* var.name = lit; Expr::Set inserts into the field map of an Object and
\* panics on any other target.
SetStmt(var, name, lit) ==
    /\ phase = "run"
    /\ LET target == EnvGet(scopes, env, var, FALSE)
       IN  IF target.kind # "Some"
           THEN ClassPanic("Undefined variable")
           ELSE IF target.value.tag = "Object"
                THEN /\ stores' = [stores EXCEPT ![target.value.fields] =
                                       MapInsert(@, name, lit)]
                     /\ UNCHANGED <<phase, panicWhy, scopes, arrays, byNew, fieldEvals>>
                ELSE ClassPanic("Cannot assign property on non-object value")
    /\ ClassFrame

\* var.name.push(lit); Expr::Get of name on the value of var, Expr::Get of
\* push on that, then call_value with the evaluated arguments only.
PushStmt(var, name, lit) ==
    /\ phase = "run"
    /\ LET target == EnvGet(scopes, env, var, FALSE)
       IN  IF target.kind # "Some"
           THEN ClassPanic("Undefined variable")
           ELSE IF target.value.tag # "Object"
                THEN ClassPanic("Property not supported")
                ELSE IF name \in DOMAIN stores[target.value.fields]
                        /\ stores[target.value.fields][name].tag = "Array"
                     THEN ClassPanic("push() must be called on an array")
                     ELSE ClassPanic("Property not supported")
    /\ ClassFrame

\* The value Expr::Get { object, name } has on target: the field or Null on
\* an Object, a panic on a Class or any other value without an arm.
GetProperty(target, name) ==
    IF target.tag = "Object"
    THEN IF name \in DOMAIN stores[target.fields]
         THEN stores[target.fields][name]
         ELSE Null
    ELSE Panicked("Property not supported")

\* var.name; as an expression statement.
GetStmt(var, name) ==
    /\ phase = "run"
    /\ LET target == EnvGet(scopes, env, var, FALSE)
       IN  IF target.kind # "Some"
           THEN ClassPanic("Undefined variable") /\ UNCHANGED lastEval
           ELSE LET v == GetProperty(target.value, name)
                IN  /\ lastEval' = [expr |-> "get", object |-> var, name |-> name,
                                    value |-> v]
                    /\ IF v.tag = "Panic"
                       THEN ClassPanic(v.message)
                       ELSE /\ lastEval' # lastEval
                            /\ UNCHANGED <<phase, panicWhy, scopes, stores, arrays,
                                           byNew, fieldEvals>>
    /\ ClassStmtFrame

\* A program starts in the root scope with nothing declared.
InitClass ==
    /\ TimerIdle
    /\ EnvIdle
    /\ env = 1
    /\ phase = "run"
    /\ pos = 0
    /\ hasCatch = FALSE
    /\ hasFinally = FALSE
    /\ result = SigNone
    /\ ret = SigNone
    /\ catch_env = 0
    /\ pride_env = 0
    /\ env0 = EmptyMap
    /\ trace = <<>>
    /\ HeapIdle
    /\ ExprIdle

NextClass ==
    \/ \E lit \in Literals, elems \in {<<>>, <<Number(1)>>} : ClowderStmt(lit, elems)
    \/ \E var \in Vars : NewStmt(var)
    \/ \E var \in Vars : ObjectStmt(var)
    \/ \E var \in Vars, name \in FieldNames, lit \in Literals : SetStmt(var, name, lit)
    \/ \E var \in Vars, name \in FieldNames, lit \in Literals : PushStmt(var, name, lit)
    \/ \E var \in Vars, name \in PropertyNames : GetStmt(var, name)

SpecClass == InitClass /\ [][NextClass]_vars

(* ---------------- Expr::Binary: arithmetic and equality ----------------- *)

\* Elements a tuple operand holds at most.
MaxTupleLen == 2

\* Value::String, Value::Bool, Value::Tuple
Str(s) == [tag |-> "String", s |-> s]
Bool(b) == [tag |-> "Bool", b |-> b]
Tuple(values) == [tag |-> "Tuple", values |-> values]

\* Value::NativeFunction(Arc<..>): f names the allocation the Arc points to.
NativeFunction(f) == [tag |-> "NativeFunction", n |-> f]

\* Value::Instance { class_name, fields, .. }: fields is the number of a
\* field map of stores.
Instance(class_name, fields) ==
    [tag |-> "Instance", class_name |-> class_name, fields |-> fields]

\* The contents the two arrays of the equality programs are created with.
ArrayContents == {<<>>, <<Number(1)>>}

\* The operands of the equality programs: scalars, the two arrays, objects,
\* functions and instances of the heap, and tuples of numbers and arrays.
TupleElems == {Number(1), Number(2), Array(1), Array(2)}
Tuples == {Tuple(vs) : vs \in UNION {[1..k -> TupleElems] : k \in 0..MaxTupleLen}}
Operators == {"+", "-", "*", "==", "===", "!=", "!==", ">", "<", ">=", "<="}
BinaryOperands ==
    {Number(1), Number(2), Str("a"), Str("b"), Bool(TRUE), Bool(FALSE), Null,
     Array(1), Array(2), Object(1), Object(2), NativeFunction(1), NativeFunction(2),
     Instance(ClassName, 1), Instance(ClassName, 2)} \cup Tuples

\* values_equal_strict(a, b)
values_equal_strict(a, b) ==
    CASE a.tag = "Number" /\ b.tag = "Number" -> a.n = b.n
      [] a.tag = "String" /\ b.tag = "String" -> a.s = b.s
      [] a.tag = "Bool" /\ b.tag = "Bool" -> a.b = b.b
      [] a.tag = "Null" /\ b.tag = "Null" -> TRUE
      [] a.tag = "Array" /\ b.tag = "Array" -> a.values = b.values
      [] a.tag = "Object" /\ b.tag = "Object" -> a.fields = b.fields
      [] a.tag = "NativeFunction" /\ b.tag = "NativeFunction" -> a.n = b.n
      [] OTHER -> FALSE

\* The scalar arms that precede the fallback of each equality operator.
SameScalarTag(l, r) ==
    \/ l.tag = "Number" /\ r.tag = "Number"
    \/ l.tag = "String" /\ r.tag = "String"
    \/ l.tag = "Bool" /\ r.tag = "Bool"
    \/ l.tag = "Null" /\ r.tag = "Null"

ScalarEq(l, r) ==
    CASE l.tag = "Number" -> l.n = r.n
      [] l.tag = "String" -> l.s = r.s
      [] l.tag = "Bool" -> l.b = r.b
      [] l.tag = "Null" -> TRUE

\* Expr::Binary: match (l, r, operator.as_str()) { ... }
Binary(l, operator, r) ==
    CASE l.tag = "Number" /\ r.tag = "Number" /\ operator = "+" -> Number(l.n + r.n)
      [] l.tag = "Number" /\ r.tag = "Number" /\ operator = "-" -> Number(l.n - r.n)
      [] l.tag = "Number" /\ r.tag = "Number" /\ operator = "*" -> Number(l.n * r.n)
      [] l.tag = "String" /\ r.tag = "String" /\ operator = "+" -> Str(<<l.s, r.s>>)
      [] l.tag = "String" /\ r.tag = "Number" /\ operator = "+" -> Str(<<l.s, r.n>>)
      [] l.tag = "Number" /\ r.tag = "String" /\ operator = "+" -> Str(<<l.n, r.s>>)
      [] operator = "==" ->
           IF SameScalarTag(l, r) THEN Bool(ScalarEq(l, r)) ELSE Bool(l.tag = r.tag)
      [] operator = "===" ->
           IF SameScalarTag(l, r) THEN Bool(ScalarEq(l, r))
           ELSE Bool(values_equal_strict(l, r))
      [] operator = "!=" ->
           IF SameScalarTag(l, r) THEN Bool(~ScalarEq(l, r)) ELSE Bool(l.tag # r.tag)
      [] operator = "!==" ->
           IF SameScalarTag(l, r) THEN Bool(~ScalarEq(l, r))
           ELSE Bool(~values_equal_strict(l, r))
      [] l.tag = "Number" /\ r.tag = "Number" /\ operator = ">" -> Bool(l.n > r.n)
      [] l.tag = "Number" /\ r.tag = "Number" /\ operator = "<" -> Bool(l.n < r.n)
      [] l.tag = "Number" /\ r.tag = "Number" /\ operator = ">=" -> Bool(l.n >= r.n)
      [] l.tag = "Number" /\ r.tag = "Number" /\ operator = "<=" -> Bool(l.n <= r.n)
      [] OTHER -> Panicked("Invalid binary operation")

\* Everything but the expression under evaluation.
ExprFrame == UNCHANGED <<timerVars, timerHist, envVars, stmtVars, heapVars, parseVars, callVars>>

\* The expression l operator r, both operands already values, not yet
\* evaluated.
Pending == [tag |-> "Pending"]
BinaryExpr(l, operator, r) ==
    [expr |-> "binary", left |-> l, operator |-> operator, right |-> r, value |-> Pending]

\* The pending binary expression is evaluated.
EvalBinary ==
    /\ lastEval.expr = "binary"
    /\ lastEval.value.tag = "Pending"
    /\ lastEval' = [lastEval EXCEPT
                       !.value = Binary(lastEval.left, lastEval.operator, lastEval.right)]
    /\ ExprFrame

\* Two arrays and two objects were created, the arrays possibly with equal
\* contents, and the program is about to evaluate one binary expression.
InitEq ==
    /\ TimerIdle
    /\ EnvIdle
    /\ StmtAt("run")
    /\ \E c1 \in ArrayContents, c2 \in ArrayContents : arrays = <<c1, c2>>
    /\ stores = <<EmptyMap, EmptyMap>>
    /\ byNew = {}
    /\ fieldEvals = 0
    /\ ParseIdle /\ CallIdle
    /\ \E l \in BinaryOperands, operator \in Operators, r \in BinaryOperands :
           lastEval = BinaryExpr(l, operator, r)

NextEq == EvalBinary

SpecEq == InitEq /\ [][NextEq]_vars

(* ------------------ Expr::Assign (expressions.rs) ---------------------- *)

\* The values the assignments of the scope-chain programs store; declarations
\* bind the number of the declaring scope, so an assigned value is new.
AssignValues == {10}

RECURSIVE EnvAssignOrDefine(_, _, _, _)
\* An assign that binds the name in the scope where the climb ends when no
\* scope of the chain binds it.
EnvAssignOrDefine(sc, s, name, v) ==
    IF name \in DOMAIN sc[s].values
    THEN [ok |-> TRUE, scopes |-> [sc EXCEPT ![s].values[name].value = v]]
    ELSE IF sc[s].parent # 0
         THEN EnvAssignOrDefine(sc, sc[s].parent, name, v)
         ELSE [ok |-> TRUE, scopes |-> EnvDefine(sc, s, name, v, "Public")]

\* An update that replaces the whole entry by a Public one.
SetEntryPublic(entry, v) == [value |-> v, access |-> "Public"]

\* entry.value = value on the EnvEntry found by values.get_mut(name)
SetEntryValue(entry, v) == [entry EXCEPT !.value = v]

RECURSIVE EnvAssign(_, _, _, _)
\* Environment::assign(&mut self, name, value): the bool it returns and the
\* scopes it leaves.
EnvAssign(sc, s, name, v) ==
    IF name \in DOMAIN sc[s].values
    THEN [ok |-> TRUE, scopes |-> [sc EXCEPT ![s].values[name] = SetEntryValue(@, v)]]
    ELSE IF sc[s].parent # 0
         THEN EnvAssign(sc, sc[s].parent, name, v)
         ELSE [ok |-> FALSE, scopes |-> sc]

\* Expr::Assign { name, value } evaluated in scope s, the right-hand side
\* already the value v (not a module): the value of the expression, or the
\* panic "Undefined variable".
EvalAssign(s, name, v) ==
    /\ lastEval = NoEval
    /\ LET r == EnvAssign(scopes, s, name, v)
       IN  /\ scopes' = r.scopes
           /\ lastEval' = [expr |-> "assign", env |-> s, name |-> name, assigned |-> v,
                           before |-> scopes,
                           value |-> IF r.ok THEN Number(v)
                                     ELSE Panicked("Undefined variable")]
    /\ lastGet' = NoGet
    /\ UNCHANGED <<timerVars, timerHist, stmtVars, heapVars, parseVars, callVars>>

InitAssign == TimerIdle /\ EnvIdle /\ StmtIdle

\* Blocks are entered and names declared, then one assignment is evaluated.
NextAssign ==
    \/ lastEval = NoEval /\ \E parent \in 1..Len(scopes) : EnvEnter(parent)
    \/ lastEval = NoEval /\ \E s \in 1..Len(scopes), name \in Names, access \in Access :
                                EnvDeclare(s, name, access)
    \/ \E s \in 1..Len(scopes), name \in Names, v \in AssignValues : EvalAssign(s, name, v)

SpecAssign == InitAssign /\ [][NextAssign]_vars

(* ------------------ parser (parser/*.rs, lexer/lexer.rs) ---------------- *)

\* Binary operators a generated source holds at most.
MaxOperators == 2

\* Tokens as the lexer pushes them.
Num(lexeme) == Token("Number", lexeme)
Ident(lexeme) == Token("Identifier", lexeme)
Sym(lexeme) == Token("Symbol", lexeme)
StrTok(lexeme) == Token("String", lexeme)

\* token.lexeme.parse::<f64>() on the number lexemes of the sources.
ParseNumber(lexeme) ==
    CASE lexeme = "0" -> 0
      [] lexeme = "1" -> 1
      [] lexeme = "2" -> 2
      [] lexeme = "3" -> 3
      [] lexeme = "4" -> 4
      [] lexeme = "10" -> 10

\* ast::Expr
ExprLiteral(v) == [node |-> "Literal", value |-> v]
ExprIdentifier(name) == [node |-> "Identifier", name |-> name]
ExprUnary(operator, right) == [node |-> "Unary", operator |-> operator, right |-> right]
ExprBinary(left, operator, right) ==
    [node |-> "Binary", left |-> left, operator |-> operator, right |-> right]
ExprLogical(left, operator, right) ==
    [node |-> "Logical", left |-> left, operator |-> operator, right |-> right]
ExprGrouping(e) == [node |-> "Grouping", expr |-> e]
ExprTuple(values) == [node |-> "Tuple", values |-> values]
ExprGet(object, name) == [node |-> "Get", object |-> object, name |-> name]
ExprIndex(object, index) == [node |-> "Index", object |-> object, index |-> index]
ExprPostIncrement(name) == [node |-> "PostIncrement", name |-> name]
ExprPostDecrement(name) == [node |-> "PostDecrement", name |-> name]
ExprAssign(name, value) == [node |-> "Assign", name |-> name, value |-> value]
ExprSet(object, name, value) ==
    [node |-> "Set", object |-> object, name |-> name, value |-> value]
ExprIndexAssign(object, index, value) ==
    [node |-> "IndexAssign", object |-> object, index |-> index, value |-> value]

ExprLambda(params, body) == [node |-> "Lambda", params |-> params, body |-> body]

\* Stmt::Expression
StmtExpression(e) == [stmt |-> "Expression", expr |-> e]

\* panic!(why) inside a parsing method.
ParsePanic(why) == [node |-> "Panic", message |-> why]

\* What a parsing method leaves behind: the node it returns (or its panic)
\* and Parser.current.
Parsed(expr, cur) == [expr |-> expr, current |-> cur]
Panics(r) == r.expr.node = "Panic"

\* `let v = value;` followed by body: the value is computed once.
Let(value, body(_)) == CHOOSE res \in {body(v) : v \in {value}} : TRUE

\* Parser::is_at_end, check_symbol, match_symbol / match_operator /
\* match_symbol_lexeme (the caller advances current when they hold).
is_at_end(toks, cur) == toks[cur + 1].kind = "Eof"
check_symbol(toks, cur, ch) ==
    /\ ~is_at_end(toks, cur)
    /\ toks[cur + 1].kind = "Symbol"
    /\ toks[cur + 1].lexeme = ch
match_operator(toks, cur, op) == check_symbol(toks, cur, op)

RECURSIVE expression(_, _)
RECURSIVE logical_or(_, _)
RECURSIVE logical_or_while(_, _)
RECURSIVE logical_and(_, _)
RECURSIVE logical_and_while(_, _)
RECURSIVE equality(_, _)
RECURSIVE equality_while(_, _)
RECURSIVE comparison(_, _)
RECURSIVE comparison_while(_, _)
RECURSIVE term(_, _)
RECURSIVE term_while_flat(_, _)
RECURSIVE term_while(_, _)
RECURSIVE factor(_, _)
RECURSIVE factor_while(_, _)
RECURSIVE unary(_, _)
RECURSIVE call(_, _)
RECURSIVE call_loop(_, _)
RECURSIVE primary(_, _)
RECURSIVE primary_normal(_, _)
RECURSIVE primary_paren(_, _)
RECURSIVE primary_bare(_, _)
RECURSIVE tuple_loop(_, _, _)
RECURSIVE lambda_body(_, _, _)
RECURSIVE lambda_block(_, _, _)
RECURSIVE statement(_, _)
RECURSIVE assignment(_, _)

\* The loop of the tuple form: values.push(self.expression()) while a comma
\* follows, then consume_symbol(')').
tuple_loop(toks, cur, values) ==
    Let(expression(toks, cur),
        LAMBDA v :
            IF Panics(v)
            THEN v
            ELSE IF check_symbol(toks, v.current, ",")
                 THEN tuple_loop(toks, v.current + 1, Append(values, v.expr))
                 ELSE IF check_symbol(toks, v.current, ")")
                      THEN Parsed(ExprTuple(Append(values, v.expr)), v.current + 1)
                      ELSE Parsed(ParsePanic("Expected ')'"), v.current))

\* Parser::primary from `let token = self.advance()` on ("Normal literals /
\* grouping / tuple"), on sources that hold no keyword: a number, a string,
\* an identifier (with ++ / --), a tuple or a parenthesized expression.
primary_normal(toks, cur) ==
    LET token == toks[cur + 1]
    IN  CASE token.kind = "Number" ->
                 Parsed(ExprLiteral(Number(ParseNumber(token.lexeme))), cur + 1)
          [] token.kind = "String" ->
                 Parsed(ExprLiteral(Str(token.lexeme)), cur + 1)
          [] token.kind = "Identifier" ->
                 IF check_symbol(toks, cur + 1, "++")
                 THEN Parsed(ExprPostIncrement(token.lexeme), cur + 2)
                 ELSE IF check_symbol(toks, cur + 1, "--")
                      THEN Parsed(ExprPostDecrement(token.lexeme), cur + 2)
                      ELSE Parsed(ExprIdentifier(token.lexeme), cur + 1)
          [] token.kind = "Symbol" /\ token.lexeme = "(" ->
                 IF check_symbol(toks, cur + 1, ")")
                 THEN Parsed(ExprTuple(<<>>), cur + 2)
                 ELSE Let(expression(toks, cur + 1),
                          LAMBDA inner :
                              IF Panics(inner)
                              THEN inner
                              ELSE IF check_symbol(toks, inner.current, ",")
                                   THEN tuple_loop(toks, inner.current + 1, <<inner.expr>>)
                                   ELSE IF check_symbol(toks, inner.current, ")")
                                        THEN Parsed(ExprGrouping(inner.expr),
                                                    inner.current + 1)
                                        ELSE Parsed(ParsePanic("Expected ')'"),
                                                    inner.current))
          [] OTHER -> Parsed(ParsePanic("Unexpected token"), cur + 1)

\* What a lambda attempt leaves behind: whether it commits, Parser.current
\* and the parameters collected.
Attempt(commit, cur, params) == [commit |-> commit, current |-> cur, params |-> params]

RECURSIVE paren_params(_, _, _)
\* The loop of the parenthesized attempt: an identifier, then a comma and the
\* next turn, or the end of the list; valid is false when a token of the
\* list is no identifier.
paren_params(toks, cur, params) ==
    IF is_at_end(toks, cur) \/ toks[cur + 1].kind # "Identifier"
    THEN [valid |-> FALSE, current |-> cur, params |-> params]
    ELSE IF check_symbol(toks, cur + 1, ",")
         THEN paren_params(toks, cur + 2, Append(params, toks[cur + 1].lexeme))
         ELSE [valid |-> TRUE, current |-> cur + 1,
               params |-> Append(params, toks[cur + 1].lexeme)]

\* "Parenthesized lambda" of Parser::primary up to its decision: '(' is
\* consumed, the parameters are collected, ')' is matched and the lexeme of
\* the token that follows is compared with "->".
paren_attempt(toks, saved) ==
    LET list == IF check_symbol(toks, saved + 1, ")")
                THEN [valid |-> TRUE, current |-> saved + 1, params |-> <<>>]
                ELSE paren_params(toks, saved + 1, <<>>)
        closed == check_symbol(toks, list.current, ")")
        cur == IF closed THEN list.current + 1 ELSE list.current
        valid == list.valid /\ closed
    IN  Attempt(valid /\ ~is_at_end(toks, cur) /\ toks[cur + 1].lexeme = "->",
                cur, list.params)

\* Parser::match_arrow
match_arrow(toks, cur) == toks[cur + 1].kind = "Symbol" /\ toks[cur + 1].lexeme = "->"

\* "Bare lambda" of Parser::primary up to its decision: the identifier is
\* consumed and match_arrow() decides.
bare_attempt(toks, saved) ==
    Attempt(match_arrow(toks, saved + 1), saved + 1, <<toks[saved + 1].lexeme>>)

\* self.current = saved
Rollback(saved, attempt) == saved

\* while !self.check_symbol('}') { body.push(self.statement()) }, then
\* consume_symbol('}').
lambda_body(toks, cur, body) ==
    IF check_symbol(toks, cur, "}")
    THEN [panic |-> "", body |-> body, current |-> cur + 1]
    ELSE Let(statement(toks, cur),
             LAMBDA s :
                 IF "node" \in DOMAIN s.expr
                 THEN [panic |-> s.expr.message, body |-> body, current |-> s.current]
                 ELSE lambda_body(toks, s.current, Append(body, s.expr)))

\* The committed lambda, the cursor on its arrow: the arrow is consumed,
\* consume_symbol('{'), the body, Expr::Lambda { params, body }.
lambda_block(toks, cur, params) ==
    IF ~check_symbol(toks, cur + 1, "{")
    THEN Parsed(ParsePanic("Expected '{'"), cur + 1)
    ELSE Let(lambda_body(toks, cur + 2, <<>>),
             LAMBDA b :
                 IF b.panic # ""
                 THEN Parsed(ParsePanic(b.panic), b.current)
                 ELSE Parsed(ExprLambda(params, b.body), b.current))

\* "Bare lambda" of Parser::primary and what follows it: the attempt, rolled
\* back when it does not commit, then the normal forms.
primary_bare(toks, cur) ==
    Let(IF ~is_at_end(toks, cur) /\ toks[cur + 1].kind = "Identifier"
        THEN bare_attempt(toks, cur)
        ELSE Attempt(FALSE, cur, <<>>),
        LAMBDA bare :
            IF bare.commit
            THEN lambda_block(toks, bare.current, bare.params)
            ELSE primary_normal(toks,
                                IF ~is_at_end(toks, cur) /\ toks[cur + 1].kind = "Identifier"
                                THEN Rollback(cur, bare)
                                ELSE cur))

\* "Parenthesized lambda" of Parser::primary and what follows it: the
\* attempt, rolled back when it does not commit, then the bare attempt.
primary_paren(toks, cur) ==
    Let(IF check_symbol(toks, cur, "(")
        THEN paren_attempt(toks, cur)
        ELSE Attempt(FALSE, cur, <<>>),
        LAMBDA paren :
            IF paren.commit
            THEN lambda_block(toks, paren.current, paren.params)
            ELSE primary_bare(toks, IF check_symbol(toks, cur, "(")
                                    THEN Rollback(cur, paren)
                                    ELSE cur))

\* Parser::primary on sources without keywords: the two lambda attempts,
\* each rolled back when it does not commit, then the normal forms.
primary(toks, cur) == Let(cur, LAMBDA saved : primary_paren(toks, saved))

\* The loop of Parser::call after a primary: `.name` and `[index]` (the
\* sources hold no call parentheses after an operand).
call_loop(toks, r) ==
    IF check_symbol(toks, r.current, ".")
    THEN LET token == toks[r.current + 2]
         IN  IF token.kind \notin {"Identifier", "Keyword"}
             THEN Parsed(ParsePanic("Expected property name after '.'"), r.current + 2)
             ELSE call_loop(toks, Parsed(ExprGet(r.expr, token.lexeme), r.current + 2))
    ELSE IF check_symbol(toks, r.current, "[")
         THEN Let(expression(toks, r.current + 1),
                  LAMBDA index :
                      IF Panics(index)
                      THEN index
                      ELSE IF check_symbol(toks, index.current, "]")
                           THEN call_loop(toks, Parsed(ExprIndex(r.expr, index.expr),
                                                       index.current + 1))
                           ELSE Parsed(ParsePanic("Expected ']'"), index.current))
         ELSE r

\* Parser::call
call(toks, cur) ==
    Let(primary(toks, cur), LAMBDA expr : IF Panics(expr) THEN expr ELSE call_loop(toks, expr))

\* Parser::unary
unary(toks, cur) ==
    IF match_operator(toks, cur, "!") \/ match_operator(toks, cur, "-")
    THEN Let(unary(toks, cur + 1),
             LAMBDA right :
                 IF Panics(right)
                 THEN right
                 ELSE Parsed(ExprUnary(toks[cur + 1].lexeme, right.expr), right.current))
    ELSE call(toks, cur)

\* The while loop of Parser::factor.
factor_while(toks, r) ==
    IF \E op \in {"*", "/", "%"} : match_operator(toks, r.current, op)
    THEN LET op == toks[r.current + 1].lexeme
         IN  Let(unary(toks, r.current + 1),
                 LAMBDA right :
                     IF Panics(right)
                     THEN right
                     ELSE factor_while(toks, Parsed(ExprBinary(r.expr, op, right.expr),
                                       right.current)))
    ELSE r

\* Parser::factor
factor(toks, cur) ==
    Let(unary(toks, cur), LAMBDA expr : IF Panics(expr) THEN expr ELSE factor_while(toks, expr))

\* A term loop that folds + - * / % at one level, left to right.
term_while_flat(toks, r) ==
    IF \E op \in {"+", "-", "*", "/", "%"} : match_operator(toks, r.current, op)
    THEN LET op == toks[r.current + 1].lexeme
         IN  Let(unary(toks, r.current + 1),
                 LAMBDA right :
                     IF Panics(right)
                     THEN right
                     ELSE term_while_flat(toks, Parsed(ExprBinary(r.expr, op, right.expr),
                                       right.current)))
    ELSE r

\* The while loop of Parser::term.
term_while(toks, r) ==
    IF \E op \in {"+", "-"} : match_operator(toks, r.current, op)
    THEN LET op == toks[r.current + 1].lexeme
         IN  Let(factor(toks, r.current + 1),
                 LAMBDA right :
                     IF Panics(right)
                     THEN right
                     ELSE term_while(toks, Parsed(ExprBinary(r.expr, op, right.expr),
                                       right.current)))
    ELSE r

\* Parser::term
term(toks, cur) ==
    Let(factor(toks, cur), LAMBDA expr : IF Panics(expr) THEN expr ELSE term_while(toks, expr))

\* The while loop of Parser::comparison.
comparison_while(toks, r) ==
    IF \E op \in {">", ">=", "<", "<="} : match_operator(toks, r.current, op)
    THEN LET op == toks[r.current + 1].lexeme
         IN  Let(term(toks, r.current + 1),
                 LAMBDA right :
                     IF Panics(right)
                     THEN right
                     ELSE comparison_while(toks, Parsed(ExprBinary(r.expr, op, right.expr),
                                       right.current)))
    ELSE r

\* Parser::comparison
comparison(toks, cur) ==
    Let(term(toks, cur), LAMBDA expr : IF Panics(expr) THEN expr ELSE comparison_while(toks, expr))

\* The while loop of Parser::equality.
equality_while(toks, r) ==
    IF \E op \in {"==", "!=", "===", "!=="} : match_operator(toks, r.current, op)
    THEN LET op == toks[r.current + 1].lexeme
         IN  Let(comparison(toks, r.current + 1),
                 LAMBDA right :
                     IF Panics(right)
                     THEN right
                     ELSE equality_while(toks, Parsed(ExprBinary(r.expr, op, right.expr),
                                       right.current)))
    ELSE r

\* Parser::equality
equality(toks, cur) ==
    Let(comparison(toks, cur), LAMBDA expr : IF Panics(expr) THEN expr ELSE equality_while(toks, expr))

\* The while loop of Parser::logical_and.
logical_and_while(toks, r) ==
    IF match_operator(toks, r.current, "&&")
    THEN Let(equality(toks, r.current + 1),
             LAMBDA right :
                 IF Panics(right)
                 THEN right
                 ELSE logical_and_while(toks, Parsed(ExprLogical(r.expr, "&&", right.expr),
                                   right.current)))
    ELSE r

\* Parser::logical_and
logical_and(toks, cur) ==
    Let(equality(toks, cur), LAMBDA expr : IF Panics(expr) THEN expr ELSE logical_and_while(toks, expr))

\* The while loop of Parser::logical_or.
logical_or_while(toks, r) ==
    IF match_operator(toks, r.current, "||")
    THEN Let(logical_and(toks, r.current + 1),
             LAMBDA right :
                 IF Panics(right)
                 THEN right
                 ELSE logical_or_while(toks, Parsed(ExprLogical(r.expr, "||", right.expr),
                                   right.current)))
    ELSE r

\* Parser::logical_or
logical_or(toks, cur) ==
    Let(logical_and(toks, cur), LAMBDA expr : IF Panics(expr) THEN expr ELSE logical_or_while(toks, expr))

\* Parser::assignment; no parsing method calls it but itself.
assignment(toks, cur) ==
    Let(equality(toks, cur),
        LAMBDA expr :
            IF Panics(expr) \/ ~check_symbol(toks, expr.current, "=")
            THEN expr
            ELSE Let(assignment(toks, expr.current + 1),
                     LAMBDA value :
                         IF Panics(value)
                         THEN value
                         ELSE CASE expr.expr.node = "Identifier" ->
                                       Parsed(ExprAssign(expr.expr.name, value.expr),
                                              value.current)
                                [] expr.expr.node = "Get" ->
                                       Parsed(ExprSet(expr.expr.object, expr.expr.name,
                                                      value.expr),
                                              value.current)
                                [] expr.expr.node = "Index" ->
                                       Parsed(ExprIndexAssign(expr.expr.object,
                                                              expr.expr.index, value.expr),
                                              value.current)
                                [] OTHER ->
                                       Parsed(ParsePanic("Invalid assignment target"),
                                              value.current)))

\* Parser::expression
expression(toks, cur) == logical_or(toks, cur)

\* Parser::expression_statement
expression_statement(toks, cur) ==
    Let(expression(toks, cur),
        LAMBDA expr :
            IF Panics(expr)
            THEN expr
            ELSE Parsed(StmtExpression(expr.expr),
                        IF check_symbol(toks, expr.current, ";")
                        THEN expr.current + 1
                        ELSE expr.current))

\* Parser::statement on a source without keywords.
statement(toks, cur) == expression_statement(toks, cur)

RECURSIVE parse_while(_, _, _)
\* The loop of Parser::parse: statements until Eof, or the panic of one.
parse_while(toks, cur, stmts) ==
    IF is_at_end(toks, cur)
    THEN [parsed |-> TRUE, stmts |-> stmts, panic |-> "", current |-> cur]
    ELSE Let(statement(toks, cur),
             LAMBDA s :
                 IF "node" \in DOMAIN s.expr
                 THEN [parsed |-> TRUE, stmts |-> stmts, panic |-> s.expr.message,
                       current |-> s.current]
                 ELSE parse_while(toks, s.current, Append(stmts, s.expr)))

\* parse(tokens)
parse(toks) == parse_while(toks, 0, <<>>)

\* is_truthy(value)
is_truthy(v) ==
    CASE v.tag = "Bool" -> v.b
      [] v.tag = "Null" -> FALSE
      [] v.tag = "Number" -> v.n # 0
      [] v.tag = "String" -> v.s # ""
      [] OTHER -> TRUE

\* Expr::Unary
Unary(operator, r) ==
    CASE operator = "-" /\ r.tag = "Number" -> Number(0 - r.n)
      [] operator = "!" /\ r.tag = "Bool" -> Bool(~r.b)
      [] OTHER -> Panicked("Invalid unary operation")

RECURSIVE eval_expr(_, _)
\* eval_expr(expr, env) on literals, identifiers, groupings and unary, binary
\* and logical nodes; a panic of an operand is the panic of the expression.
eval_expr(expr, e) ==
    CASE expr.node = "Literal" -> expr.value
      [] expr.node = "Identifier" ->
             LET got == EnvGet(scopes, e, expr.name, FALSE)
             IN  IF got.kind = "Some" THEN got.value ELSE Panicked("Undefined variable")
      [] expr.node = "Grouping" -> eval_expr(expr.expr, e)
      [] expr.node = "Unary" ->
             Let(eval_expr(expr.right, e),
                 LAMBDA r : IF r.tag = "Panic" THEN r ELSE Unary(expr.operator, r))
      [] expr.node = "Binary" ->
             Let(eval_expr(expr.left, e),
                 LAMBDA l :
                     IF l.tag = "Panic"
                     THEN l
                     ELSE Let(eval_expr(expr.right, e),
                              LAMBDA r : IF r.tag = "Panic" THEN r
                                         ELSE Binary(l, expr.operator, r)))
      [] expr.node = "Logical" ->
             Let(eval_expr(expr.left, e),
                 LAMBDA left_val :
                     IF left_val.tag = "Panic" THEN left_val
                     ELSE IF expr.operator = "||"
                          THEN IF is_truthy(left_val) THEN left_val
                               ELSE eval_expr(expr.right, e)
                          ELSE IF ~is_truthy(left_val) THEN left_val
                               ELSE eval_expr(expr.right, e))

RECURSIVE Evaluable(_)
\* The nodes eval_expr is modelled on; / and % are left out because the
\* numbers of the model are integers.
Evaluable(expr) ==
    CASE expr.node \in {"Literal", "Identifier"} -> TRUE
      [] expr.node = "Grouping" -> Evaluable(expr.expr)
      [] expr.node = "Unary" -> Evaluable(expr.right)
      [] expr.node \in {"Binary", "Logical"} ->
             /\ expr.operator \notin {"/", "%"}
             /\ Evaluable(expr.left)
             /\ Evaluable(expr.right)
      [] OTHER -> FALSE

\* The operands and operators of the generated sources.
OperandTokens == {<<Num("1")>>, <<Sym("-"), Num("2")>>, <<Sym("!"), Ident("a")>>}
BinaryOperators == {"||", "&&", "==", ">", "+", "-", "*", "/"}

RECURSIVE Infix(_, _)
\* operand op operand op ... operand
Infix(operands, ops) ==
    IF ops = <<>>
    THEN operands[1]
    ELSE operands[1] \o <<Sym(ops[1])>> \o Infix(Tail(operands), Tail(ops))

InfixSources ==
    UNION {{Infix(operands, ops) : operands \in [1..k + 1 -> OperandTokens],
                                   ops \in [1..k -> BinaryOperators]} :
           k \in 0..MaxOperators}

\* 1 + 2 * 3, 2 + 3 * 4 > 10, a || b && c, (1 + 2) * 3
PrecedenceSources ==
    {<<Num("1"), Sym("+"), Num("2"), Sym("*"), Num("3")>>,
     <<Num("2"), Sym("+"), Num("3"), Sym("*"), Num("4"), Sym(">"), Num("10")>>,
     <<Ident("a"), Sym("||"), Ident("b"), Sym("&&"), Ident("c")>>,
     <<Sym("("), Num("1"), Sym("+"), Num("2"), Sym(")"), Sym("*"), Num("3")>>}

\* target = value: x, a.n, a[0], 1 and a + b as targets; 1, y = 1 and
\* a || b as values.
AssignTargets ==
    {<<Ident("x")>>, <<Ident("a"), Sym("."), Ident("n")>>,
     <<Ident("a"), Sym("["), Num("0"), Sym("]")>>, <<Num("1")>>,
     <<Ident("a"), Sym("+"), Ident("b")>>}
AssignedSources ==
    {<<Num("1")>>, <<Ident("y"), Sym("="), Num("1")>>,
     <<Ident("a"), Sym("||"), Ident("b")>>}
AssignSources ==
    {target \o <<Sym("=")>> \o value : target \in AssignTargets, value \in AssignedSources}

\* A source as the lexer hands it on, the written ones also with their
\* closing semicolon.
Sources == InfixSources \cup PrecedenceSources \cup AssignSources
TokenStreams ==
    {src \o <<Eof>> : src \in Sources}
        \cup {src \o <<Sym(";"), Eof>> : src \in PrecedenceSources \cup AssignSources}

ParseFrame == UNCHANGED <<timerVars, timerHist, envVars, stmtVars, heapVars, callVars>>

\* parse(tokens) runs to its end or to its panic.
Parse ==
    /\ program = NotParsed
    /\ \E r \in {parse(tokens)} :
           /\ program' = [parsed |-> TRUE, stmts |-> r.stmts, panic |-> r.panic]
           /\ current' = r.current
    /\ UNCHANGED <<tokens, lastEval>>
    /\ ParseFrame

\* run(statements) on a program of one expression statement: its value, or
\* the panic it ends in.
EvalProgram ==
    /\ program # NotParsed
    /\ program.panic = ""
    /\ Len(program.stmts) = 1
    /\ Evaluable(program.stmts[1].expr)
    /\ lastEval = NoEval
    /\ \E v \in {eval_expr(program.stmts[1].expr, 1)} :
           lastEval' = [expr |-> "program", value |-> v]
    /\ UNCHANGED <<parseVars, callVars>>
    /\ ParseFrame

\* The lexer has produced the tokens of one source; a, b and c are bound in
\* the root scope.
InitParse ==
    /\ TimerIdle
    /\ StmtAt("run")
    /\ HeapIdle
    /\ scopes = <<[parent |-> 0,
                   values |-> MapInsert(MapInsert(MapInsert(EmptyMap,
                                 "a", [value |-> Bool(TRUE), access |-> "Public"]),
                                 "b", [value |-> Bool(FALSE), access |-> "Public"]),
                                 "c", [value |-> Bool(FALSE), access |-> "Public"])]>>
    /\ lastGet = NoGet
    /\ lastEval = NoEval
    /\ CallIdle
    /\ tokens \in TokenStreams
    /\ current = 0
    /\ program = NotParsed

NextParse == Parse \/ EvalProgram

SpecParse == InitParse /\ [][NextParse]_vars

(* ------------- Parser::primary, lambda detection (parser) --------------- *)

\* Parenthesized identifier lists: (), (a), (a, b).
ParamLists ==
    {<<Sym("("), Sym(")")>>,
     <<Sym("("), Ident("a"), Sym(")")>>,
     <<Sym("("), Ident("a"), Sym(","), Ident("b"), Sym(")")>>}

\* Parenthesized forms that are no identifier list, closed or not.
OtherParens ==
    {<<Sym("("), Num("1"), Sym(")")>>,
     <<Sym("("), Ident("a"), Ident("b"), Sym(")")>>,
     <<Sym("("), Ident("a"), Sym(","), Sym(")")>>,
     <<Sym("("), Ident("a")>>,
     <<Sym("("), Ident("a"), Sym("+"), Num("1"), Sym(")")>>,
     <<Sym("("), Num("1"), Sym(","), Ident("a"), Sym(")")>>}

\* What follows the parenthesized form or the identifier: nothing, an arrow
\* with a block, the string "->", a semicolon, an operator.
Followers ==
    {<<>>,
     <<Sym("->"), Sym("{"), Sym("}")>>,
     <<Sym("->"), Sym("{"), Ident("a"), Sym(";"), Sym("}")>>,
     <<Sym("->")>>,
     <<StrTok("->"), Sym("{"), Sym("}")>>,
     <<StrTok("->")>>,
     <<Sym(";")>>,
     <<Sym("+"), Num("1")>>}

\* The token streams Parser::primary is applied to.
PrimaryStreams ==
    {head \o follow \o <<Eof>> :
        head \in ParamLists \cup OtherParens \cup {<<Ident("a")>>}, follow \in Followers}

\* Parser::primary runs at the start of the tokens.
ParsePrimary ==
    /\ program = NotParsed
    /\ \E r \in {primary(tokens, current)} :
           /\ program' = [parsed |-> TRUE, primary |-> r.expr]
           /\ current' = r.current
    /\ UNCHANGED <<tokens, lastEval>>
    /\ ParseFrame

InitPrimary ==
    /\ TimerIdle
    /\ StmtAt("run")
    /\ HeapIdle
    /\ EnvIdle
    /\ lastEval = NoEval
    /\ CallIdle
    /\ tokens \in PrimaryStreams
    /\ current = 0
    /\ program = NotParsed

NextPrimary == ParsePrimary

SpecPrimary == InitPrimary /\ [][NextPrimary]_vars

(* ------------------ Expr::Lambda (expressions.rs) ----------------------- *)

\* Invocations of the lambda a program of the closure model makes at most.
MaxCalls == 2

\* Stmt::Return(Some(expr))
StmtReturn(e) == [stmt |-> "Return", expr |-> e]

\* The lambda the programs declare: f = (p, q) -> { body }, the body made of
\* x++; and return name; statements.
LambdaName == "f"
Params == <<"p", "q">>
IncrX == StmtExpression(ExprPostIncrement("x"))
Bodies ==
    {<<>>, <<IncrX>>, <<StmtReturn(ExprIdentifier("x"))>>,
     <<StmtReturn(ExprIdentifier("p"))>>, <<StmtReturn(ExprIdentifier("q"))>>,
     <<IncrX, StmtReturn(ExprIdentifier("x"))>>,
     <<StmtReturn(ExprIdentifier("p")), IncrX>>}

\* The argument lists of the calls.
ArgLists == {<<>>, <<Number(7)>>, <<Number(7), Number(8), Number(9)>>}

\* The NativeFunction Expr::Lambda evaluates to: the closure holds the
\* environment it was evaluated in, its parameters and its body.
LambdaValue(captured_env, params, body) ==
    [tag |-> "NativeFunction", captured_env |-> captured_env, params |-> params,
     body |-> body]

\* A local scope chained to the scope of the caller.
CallerParent(f, caller) == caller

\* Environment::new(Some(captured_env.clone()))
LambdaParent(f, caller) == f.captured_env

RECURSIVE BindParams(_, _, _, _, _)
\* for (i, name) in params: define_public(name, args.get(i) or Null)
BindParams(sc, local, params, args, i) ==
    IF i > Len(params)
    THEN sc
    ELSE BindParams(EnvDefine(sc, local, params[i],
                              IF i <= Len(args) THEN args[i] ELSE Null, "Public"),
                    local, params, args, i + 1)

\* Stmt::Expression(PostIncrement { name }) in scope s: the scopes it leaves
\* and the panic it ends in, if any.
PostIncrement(sc, s, name) ==
    LET got == EnvGet(sc, s, name, FALSE)
    IN  IF got.kind = "None"
        THEN [scopes |-> sc, panic |-> "Undefined variable"]
        ELSE IF got.kind # "Some"
             THEN [scopes |-> sc, panic |-> "Private access violation"]
             ELSE IF got.value.tag # "Number"
                  THEN [scopes |-> sc, panic |-> "++ only allowed on numbers"]
                  ELSE [scopes |-> EnvAssign(sc, s, name, Number(got.value.n + 1)).scopes,
                        panic |-> ""]

\* Stmt::Throw(expr)
StmtThrow(e) == [stmt |-> "Throw", expr |-> e]

\* A body loop that only a return statement ends.
StopsOnReturn(stmt) == stmt.stmt = "Return"

\* ExecSignal::Return(v) => return v, ExecSignal::Throw(e) => return e
StopsBody(stmt) == stmt.stmt \in {"Return", "Throw"}

RECURSIVE ExecBody(_, _, _)
\* for stmt in &body: exec_stmt(stmt, local_env); Return(v) returns v,
\* Throw(e) returns e, the end of the body Null.
ExecBody(sc, local, body) ==
    IF body = <<>>
    THEN [scopes |-> sc, value |-> Null]
    ELSE IF StopsBody(Head(body))
         THEN LET got == EnvGet(sc, local, Head(body).expr.name, FALSE)
              IN  [scopes |-> sc,
                   value |-> CASE got.kind = "Some" -> got.value
                               [] got.kind = "None" -> Panicked("Undefined variable")
                               [] OTHER -> Panicked("Private access violation")]
         ELSE LET r == PostIncrement(sc, local, Head(body).expr.name)
              IN  IF r.panic # ""
                  THEN [scopes |-> sc, value |-> Panicked(r.panic)]
                  ELSE ExecBody(r.scopes, local, Tail(body))

\* The closure f called with args from scope caller.
InvokeLambda(sc, f, args, caller) ==
    LET local == Len(sc) + 1
        local_env == EnvNew(sc, LambdaParent(f, caller))
    IN  ExecBody(BindParams(local_env, local, f.params, args, 1), local, f.body)

\* The evaluator panicked in a call.
CallAborted == IF lastEval.expr = "call" THEN lastEval.value.tag = "Panic" ELSE FALSE

LambdaFrame == UNCHANGED <<timerVars, timerHist, stmtVars, heapVars, parseVars, callVars, lastGet>>

\* pride x = s; or den x = s; executes in program scope s.
DeclareStmt(s, access) ==
    /\ ~CallAborted
    /\ scopes' = EnvDefine(scopes, s, "x", Number(s), access)
    /\ scopes' # scopes
    /\ UNCHANGED lastEval
    /\ LambdaFrame

\* pride f = (p, q) -> { body }; executes in program scope s, the one lambda
\* of the program.
LambdaStmt(s, body) ==
    /\ ~CallAborted
    /\ \A t \in 1..Len(scopes) : LambdaName \notin DOMAIN scopes[t].values
    /\ scopes' = EnvDefine(scopes, s, LambdaName, LambdaValue(s, Params, body), "Public")
    /\ UNCHANGED lastEval
    /\ LambdaFrame

\* f(args); executes in program scope s: Expr::Call with an identifier
\* callee and no function f, so the value bound to f goes through call_value.
CallStmt(s, args) ==
    /\ ~CallAborted
    /\ Len(scopes) < 2 + MaxCalls
    /\ LET callee_val == EnvGet(scopes, s, LambdaName, FALSE)
       IN  IF callee_val.kind # "Some"
           THEN /\ lastEval' = [expr |-> "call", caller |-> s, args |-> args, local |-> 0,
                                value |-> Panicked("Undefined function or callable")]
                /\ UNCHANGED scopes
           ELSE \E r \in {InvokeLambda(scopes, callee_val.value, args, s)} :
                    /\ scopes' = r.scopes
                    /\ lastEval' = [expr |-> "call", caller |-> s, args |-> args,
                                    local |-> Len(scopes) + 1, value |-> r.value]
    /\ LambdaFrame

\* The program is in a block of its root scope; nothing is declared yet.
InitLambda ==
    /\ TimerIdle
    /\ StmtAt("run")
    /\ HeapIdle
    /\ scopes = <<RootScope, [parent |-> 1, values |-> EmptyMap]>>
    /\ lastGet = NoGet
    /\ ExprIdle

NextLambda ==
    \/ \E s \in 1..2, access \in {"Public", "Private"} : DeclareStmt(s, access)
    \/ \E s \in 1..2, body \in Bodies : LambdaStmt(s, body)
    \/ \E s \in 1..2, args \in ArgLists : CallStmt(s, args)

SpecLambda == InitLambda /\ [][NextLambda]_vars

(* --------------- Expr::Call, named callee (expressions.rs) -------------- *)

\* FunctionDef { params, body, .. }
FunctionDef(params, body) == [params |-> params, body |-> body]

\* The function table of scope s.
FunctionsOf(fn, s) == IF s \in DOMAIN fn THEN fn[s] ELSE EmptyMap

\* Environment::define_function: self.functions.insert(name, func)
DefineFunction(fn, s, name, func) == MapInsert(fn, s, MapInsert(FunctionsOf(fn, s), name, func))

\* A lookup that stops at the function table of the scope it starts in.
GetFunctionLocal(sc, fn, s, name) ==
    IF name \in DOMAIN FunctionsOf(fn, s)
    THEN [kind |-> "Some", value |-> FunctionsOf(fn, s)[name]]
    ELSE [kind |-> "None", value |-> 0]

RECURSIVE GetFunction(_, _, _, _)
\* Environment::get_function: the table of the scope, then of its parent.
GetFunction(sc, fn, s, name) ==
    IF name \in DOMAIN FunctionsOf(fn, s)
    THEN [kind |-> "Some", value |-> FunctionsOf(fn, s)[name]]
    ELSE IF sc[s].parent # 0
         THEN GetFunction(sc, fn, sc[s].parent, name)
         ELSE [kind |-> "None", value |-> 0]

\* call_user_function: a scope chained to the environment of the call, the
\* parameters bound positionally (no defaults here: Null when missing), then
\* the body; Return(v) returns v, the end of the body Null.
CallUserFunction(sc, func, arg_vals, caller) ==
    LET func_env == Len(sc) + 1
    IN  ExecBody(BindParams(EnvNew(sc, caller), func_env, func.params, arg_vals, 1),
                 func_env, func.body)

\* The functions the programs declare under the name f:
\* purr f(p) { return p; } and purr f(q, p) { return p; }
FunctionDefs ==
    {FunctionDef(<<"p">>, <<StmtReturn(ExprIdentifier("p"))>>),
     FunctionDef(<<"q", "p">>, <<StmtReturn(ExprIdentifier("p"))>>)}

\* The lambda they bind to the name f: (r, q, p) -> { return p; }
CalleeLambda(s) == LambdaValue(s, <<"r", "q", "p">>, <<StmtReturn(ExprIdentifier("p"))>>)

\* The arguments of every call: f(7, 8, 9).
CallArgs == <<Number(7), Number(8), Number(9)>>

\* The scopes statements of the program execute in: the root, a block in it
\* and a block in that block.
CallScopes == 1..3

CallFrame2 == UNCHANGED <<timerVars, timerHist, stmtVars, heapVars, parseVars, lastGet>>

\* purr f(...) { ... } executes in scope s (Stmt::Function).
FunctionStmt(s, func) ==
    /\ ~CallAborted
    /\ functions' = DefineFunction(functions, s, LambdaName, func)
    /\ functions' # functions
    /\ UNCHANGED <<scopes, lastEval>>
    /\ CallFrame2

\* pride f = (r, q, p) -> { return p; }; or den f = ...; executes in scope s.
ValueStmt(s, access) ==
    /\ ~CallAborted
    /\ scopes' = EnvDefine(scopes, s, LambdaName, CalleeLambda(s), access)
    /\ scopes' # scopes
    /\ UNCHANGED <<functions, lastEval>>
    /\ CallFrame2

\* f(7, 8, 9); executes in scope s: eval_expr(Expr::Call) with an
\* Identifier callee.
CallNamed(s) ==
    /\ ~CallAborted
    /\ Len(scopes) < 3 + MaxCalls
    /\ \E func \in {GetFunction(scopes, functions, s, LambdaName)} :
         IF func.kind = "Some"
         THEN \E r \in {CallUserFunction(scopes, func.value, CallArgs, s)} :
                /\ scopes' = r.scopes
                /\ lastEval' = [expr |-> "call", caller |-> s, args |-> CallArgs,
                                local |-> Len(scopes) + 1, via |-> "function",
                                callee |-> func.value, value |-> r.value]
         ELSE \E callee_val \in {EnvGet(scopes, s, LambdaName, FALSE)} :
                IF callee_val.kind # "Some"
                THEN /\ lastEval' = [expr |-> "call", caller |-> s, args |-> CallArgs,
                                     local |-> 0, via |-> "panic", callee |-> Null,
                                     value |-> Panicked(IF callee_val.kind = "None"
                                                        THEN "Undefined function or callable"
                                                        ELSE "Private access violation")]
                     /\ UNCHANGED scopes
                ELSE \E r \in {InvokeLambda(scopes, callee_val.value, CallArgs, s)} :
                       /\ scopes' = r.scopes
                       /\ lastEval' = [expr |-> "call", caller |-> s, args |-> CallArgs,
                                       local |-> Len(scopes) + 1, via |-> "value",
                                       callee |-> callee_val.value, value |-> r.value]
    /\ UNCHANGED functions
    /\ CallFrame2

\* The program is in the inner of two nested blocks; nothing is declared yet.
InitCall ==
    /\ TimerIdle
    /\ StmtAt("run")
    /\ HeapIdle
    /\ scopes = <<RootScope, [parent |-> 1, values |-> EmptyMap],
                  [parent |-> 2, values |-> EmptyMap]>>
    /\ lastGet = NoGet
    /\ ExprIdle

NextCall ==
    \/ \E s \in CallScopes, func \in FunctionDefs : FunctionStmt(s, func)
    \/ \E s \in CallScopes, access \in {"Public", "Private"} : ValueStmt(s, access)
    \/ \E s \in CallScopes : CallNamed(s)

SpecCall == InitCall /\ [][NextCall]_vars

(* ------------- throw inside a called body (calls.rs) -------------------- *)

\* The bodies of the callables a try block calls: f(p) with throw p; and
\* return p; statements, p++; after or before them.
IncrP == StmtExpression(ExprPostIncrement("p"))
ThrowBodies ==
    {<<StmtThrow(ExprIdentifier("p"))>>,
     <<StmtThrow(ExprIdentifier("p")), IncrP>>,
     <<IncrP, StmtThrow(ExprIdentifier("p"))>>,
     <<StmtReturn(ExprIdentifier("p"))>>,
     <<IncrP>>}

\* The callables: a user-defined function and a lambda of the scope of the
\* try statement, one parameter each.
Callables(s) ==
    {FunctionDef(<<"p">>, body) : body \in ThrowBodies}
        \cup {LambdaValue(s, <<"p">>, body) : body \in ThrowBodies}

\* The argument lists of the calls in a try block.
ThrowArgs == {<<Number(1)>>, <<Number(2)>>}

\* Stmt::Expression(f(args)) in the try block: the call makes its scope and
\* runs the body; exec_stmt drops the value and returns Ok(ExecSignal::None).
TryCallStmt(f, args) ==
    /\ phase = "try"
    /\ pos < MaxBlock
    /\ \E r \in {IF "tag" \in DOMAIN f
                 THEN InvokeLambda(scopes, f, args, env)
                 ELSE CallUserFunction(scopes, f, args, env)} :
         LET out == [kind |-> IF r.value.tag = "Panic" THEN "Panic" ELSE "None", value |-> 0]
             tr == Append(trace, [blk |-> "try", out |-> out,
                                  call |-> [callee |-> f, args |-> args,
                                            local |-> Len(scopes) + 1, value |-> r.value]])
         IN  IF out.kind = "Panic"
             THEN Abort(tr)
             ELSE /\ scopes' = r.scopes
                  /\ pos' = pos + 1
                  /\ trace' = tr
                  /\ UNCHANGED <<phase, result, ret, catch_env>>
    /\ TryFrame

NextThrow ==
    \/ \E f \in Callables(env), args \in ThrowArgs : TryCallStmt(f, args)
    \/ \E stmt \in BlockStmts : TryStmt(stmt)
    \/ TryEnd
    \/ \E stmt \in BlockStmts : CatchStmt(stmt)
    \/ CatchEnd
    \/ \E stmt \in BlockStmts : FinallyStmt(stmt)
    \/ FinallyEnd

SpecThrow == InitTry /\ [][NextThrow]_vars

(* ------------- Expr::Index, Expr::IndexAssign (expressions.rs) ---------- *)

\* Elements the array of the index model holds at most.
MaxArrayLen == 2

\* The values its elements and the assignments take.
Elements == {Number(5), Number(6), Number(7)}

\* The indexes the programs use: from -1 to one past the longest array.
Indexes == -1..(MaxArrayLen + 1)

\* `n as usize` on an integral number: a negative number becomes 0.
AsUsize(n) == IF n < 0 THEN 0 ELSE n

\* values.borrow().get(i).cloned().unwrap_or(Value::Null), positions
\* counted from 0.
IndexRead(arr, i) == IF i < Len(arr) THEN arr[i + 1] ELSE Null

\* if i >= arr.len() { panic!("Array index out of bounds") }; arr[i] = val; val
IndexWrite(arr, i, val) ==
    IF i >= Len(arr)
    THEN [values |-> arr, value |-> Panicked("Array index out of bounds")]
    ELSE [values |-> [arr EXCEPT ![i + 1] = val], value |-> val]

\* The evaluator panicked in an index expression.
IndexAborted == IF lastEval.expr \in {"index", "index_assign"}
                THEN lastEval.value.tag = "Panic" ELSE FALSE

IndexFrame ==
    UNCHANGED <<timerVars, timerHist, envVars, stmtVars, stores, byNew, fieldEvals,
                parseVars, callVars>>

\* arr[n] with arr the array of the program.
EvalIndex(n) ==
    /\ ~IndexAborted
    /\ lastEval' = [expr |-> "index", index |-> n, before |-> arrays[1],
                    value |-> IndexRead(arrays[1], AsUsize(n))]
    /\ UNCHANGED arrays
    /\ IndexFrame

\* arr[n] = val
EvalIndexAssign(n, val) ==
    /\ ~IndexAborted
    /\ \E r \in {IndexWrite(arrays[1], AsUsize(n), val)} :
           /\ arrays' = [arrays EXCEPT ![1] = r.values]
           /\ lastEval' = [expr |-> "index_assign", index |-> n, before |-> arrays[1],
                           value |-> r.value]
    /\ IndexFrame

\* An array literal of up to MaxArrayLen elements has been evaluated.
InitIndex ==
    /\ TimerIdle
    /\ EnvIdle
    /\ StmtAt("run")
    /\ \E len \in 0..MaxArrayLen : \E c \in [1..len -> Elements] : arrays = <<c>>
    /\ stores = <<>>
    /\ byNew = {}
    /\ fieldEvals = 0
    /\ ExprIdle

NextIndex ==
    \/ \E n \in Indexes : EvalIndex(n)
    \/ \E n \in Indexes, val \in Elements : EvalIndexAssign(n, val)

SpecIndex == InitIndex /\ [][NextIndex]_vars

(* ------------------------------- claims --------------------------------- *)

\* C1 (as stated): a callback registered by setTimeout(f, d), d >= 0, runs
\* only inside pump_timers, never while the statement (or callback body) that
\* registered it is still executing, and only in a pump_timers call that
\* started after its registration.
C1_OnlyInLaterPass ==
    pc = "cb" =>
        /\ inPump
        /\ cbId \notin curRegs
        /\ passNo > reg[cbId].pass

\* C1 (amended): a callback registered by setTimeout(f, d), d >= 0, runs only
\* inside pump_timers and only after the statement or callback body that
\* registered it has completed; registered by a top-level statement it runs
\* in a pump_timers call that started after that statement, registered by a
\* timer callback it may run later in the same pump_timers call.
C1_AfterRegisteringStatement ==
    pc = "cb" =>
        /\ inPump
        /\ cbId \notin curRegs
        /\ passNo >= reg[cbId].pass
        /\ reg[cbId].top => passNo > reg[cbId].pass

\* A callback registered with delay 0 by a top-level statement is running.
C1_Witness ==
    /\ pc = "cb"
    /\ inPump
    /\ delayOf[cbId] = 0
    /\ reg[cbId].top
    /\ passNo > reg[cbId].pass

\* C7: after install_timers every one of setTimeout, setInterval,
\* clearTimeout and clearInterval is bound in the root scope, so no call of
\* one of them by the script ends in "Undefined function or callable".
C7_TimerOpsCallable ==
    /\ pc # "loop" => TimerOps \subseteq bound
    /\ panicWhy # "Undefined function or callable"

\* C8: once clearTimeout(id) has been called before the Timeout(id) message
\* was processed, the callback of id is never invoked and the clear raises no
\* error (the message is dropped by the dispatcher).
C8_ClearedTimeoutDropped ==
    \A id \in clearedEarly :
        /\ pc = "cb" => cbId # id
        /\ id \notin DOMAIN timers
        /\ panicWhy # "Undefined function or callable"

\* C9: once clearInterval(id) has been called, the entry of id is removed,
\* its cancel flag is set, and at most one IntervalTick(id) is in flight:
\* the ticks queued at that moment plus the ticks sent afterwards.
C9_AtMostOneTickInFlight ==
    \A id \in intervalCleared :
        /\ id \notin DOMAIN timers
        /\ thr[id] \in {"isleep", "loaded", "exit"} => flag[id]
        /\ lateTicks[id] <= 1
        /\ panicWhy # "Undefined function or callable"

\* The counts behind C10: the pump runs after every top-level statement that
\* completed with None, before the next statement starts, and once more after the loop;
\* each pump returns only on an empty channel, and a received message whose
\* timer has an entry gets its callback invoked, with no arguments.
C10_Counts ==
    /\ pc = "loop" => passesDone = stmtIdx /\ noneDone = stmtIdx
    /\ pc = "stmt" => passesDone = stmtIdx - 1 /\ noneDone = stmtIdx - 1 /\ ~inPump
    /\ pc = "done" => passesDone = noneDone + 1
    /\ pc = "cb" => cbArgs = <<>>

\* C10: in every state the counts of C10_Counts hold, every return of the pump
\* to the statement loop or to the end of run happens on an empty channel, and
\* every message received for a timer that has an entry starts its callback
\* with an empty argument list.
C10_PumpAfterEveryStatement ==
    /\ []C10_Counts
    /\ [][pc = "pump" /\ pc' \in {"loop", "done"} => chan = <<>>]_vars
    /\ [][(pc = "pump" /\ chan # <<>> /\ chan' = Tail(chan)
             /\ Head(chan).id \in DOMAIN timers)
          => (pc' = "cb" /\ cbId' = Head(chan).id /\ cbArgs' = <<>>)]_vars

\* run() has finished a program of two statements, both completed with
\* None, and a timeout callback was dispatched.
C10_Witness ==
    /\ pc = "done"
    /\ noneDone = 2
    /\ passesDone = 3
    /\ \E id \in Ids : thr[id] = "sent" /\ Queued(id) = 0 /\ id \notin DOMAIN timers

RECURSIVE Chain(_, _)
\* The parent chain of scope s, s first.
Chain(sc, s) == IF sc[s].parent = 0 THEN <<s>> ELSE <<s>> \o Chain(sc, sc[s].parent)

\* The positions on the chain of s whose scope binds name.
Binders(sc, s, name) ==
    {k \in 1..Len(Chain(sc, s)) : name \in DOMAIN sc[Chain(sc, s)[k]].values}

\* The position of the nearest binding of name (Binders not empty).
NearestAt(sc, s, name) ==
    CHOOSE k \in Binders(sc, s, name) : \A j \in Binders(sc, s, name) : k <= j

\* C4: get(name) started in scope S returns the value of the nearest binding
\* of name on the parent chain when it is Public or Protected, or Private and
\* in S itself; it is an access violation when the nearest binding is Private
\* in an ancestor of S; it is None when no scope of the chain binds name.
C4_GetNearestBinding ==
    lastGet.from # 0 =>
        LET sc == scopes
            s == lastGet.from
            name == lastGet.name
        IN  IF Binders(sc, s, name) = {}
            THEN lastGet.res = None
            ELSE LET k == NearestAt(sc, s, name)
                     e == sc[Chain(sc, s)[k]].values[name]
                 IN  IF e.access \in {"Public", "Protected"} \/ k = 1
                     THEN lastGet.res = Some(e.value)
                     ELSE lastGet.res = AccessViolation

\* A lookup from a grandchild scope met a Private binding in its parent
\* while the root binds the same name Public: an access violation.
C4_Witness ==
    /\ lastGet.from # 0
    /\ Len(Chain(scopes, lastGet.from)) = 3
    /\ lastGet.res = AccessViolation
    /\ NearestAt(scopes, lastGet.from, lastGet.name) = 2
    /\ 3 \in Binders(scopes, lastGet.from, lastGet.name)
    /\ scopes[Chain(scopes, lastGet.from)[3]].values[lastGet.name].access = "Public"

\* The records of trace that belong to block blk: its entries, its statements.
Entries(blk) == SelectSeq(trace, LAMBDA r : r.blk = blk /\ r.out.kind = "enter")
StmtsOf(blk) == SelectSeq(trace, LAMBDA r : r.blk = blk /\ r.out.kind # "enter")

\* The signal a block's statements produced: that of its last statement when
\* it is a Return or a Throw (a runtime error counting as the Throw of its
\* Error value), None otherwise.
BlockSignal(blk) ==
    IF StmtsOf(blk) = <<>>
    THEN SigNone
    ELSE LET out == StmtsOf(blk)[Len(StmtsOf(blk))].out
         IN  CASE out.kind = "Return" -> Return(out.value)
               [] out.kind = "Throw" -> Throw(out.value)
               [] out.kind = "Err" -> Throw(Error(out.value))
               [] OTHER -> SigNone

\* The signal try/catch produced: the catch body's when it ran, the try
\* block's otherwise.
TryCatchSignal ==
    IF Entries("catch") # <<>> THEN BlockSignal("catch") ELSE BlockSignal("try")

\* C2: a try statement with a finally block runs the finally body exactly
\* once, after the try part and the catch part, whether the try block
\* completed normally, returned or threw; the statement returns finally's
\* own signal when that is Return or Throw, the try/catch signal otherwise.
C2_FinallyOnceAndOverrides ==
    hasFinally =>
        /\ Len(Entries("finally")) <= 1
        /\ \A i \in 1..Len(trace) :
               trace[i].blk = "finally" => \A j \in i..Len(trace) : trace[j].blk = "finally"
        /\ phase = "done" =>
               /\ Len(Entries("finally")) = 1
               /\ ret = IF BlockSignal("finally").kind \in {"Return", "Throw"}
                        THEN BlockSignal("finally")
                        ELSE TryCatchSignal

\* The catch body returned, and the finally block that ran after it threw:
\* the statement's signal is finally's Throw.
C2_Witness ==
    /\ phase = "done"
    /\ hasFinally
    /\ Len(Entries("catch")) = 1
    /\ BlockSignal("try").kind = "Throw"
    /\ BlockSignal("catch").kind = "Return"
    /\ BlockSignal("finally").kind = "Throw"
    /\ ret = BlockSignal("finally")
    /\ ret.value # BlockSignal("catch").value

\* C3: when a try statement signals Throw(v) and there is a catch clause, no
\* further try statement runs, the catch body runs exactly once in a fresh
\* child scope of the statement's scope that binds the parameter to v, and
\* the catch body's signal is the try/catch result; without a catch clause
\* the result is Throw(v); when the try block does not throw, the catch body
\* does not run.
C3_CatchSemantics ==
    /\ \A i \in 1..Len(trace) :
           (trace[i].blk = "try" /\ trace[i].out.kind = "Throw") =>
               /\ \A j \in (i + 1)..Len(trace) : trace[j].blk # "try"
               /\ IF hasCatch
                  THEN /\ Len(trace) > i
                       /\ trace[i + 1] = Entered("catch")
                       /\ Len(Entries("catch")) = 1
                       /\ catch_env = Len(scopes)
                       /\ catch_env > env
                       /\ scopes[catch_env].parent = env
                       /\ CatchParam \in DOMAIN scopes[catch_env].values
                       /\ scopes[catch_env].values[CatchParam].value = trace[i].out.value
                       /\ CatchParam \notin DOMAIN scopes[env].values
                       /\ phase \in {"finally", "done"} => result = BlockSignal("catch")
                  ELSE /\ Entries("catch") = <<>>
                       /\ result = Throw(trace[i].out.value)
    /\ (\A i \in 1..Len(trace) :
            trace[i].blk = "try" => trace[i].out.kind \notin {"Throw", "Err"})
           => Entries("catch") = <<>>

\* The try block threw 2 after one statement, and the catch body returned
\* its parameter.
C3_Witness ==
    /\ phase = "done"
    /\ hasCatch
    /\ Len(StmtsOf("try")) = 2
    /\ BlockSignal("try") = Throw(Number(2))
    /\ Len(StmtsOf("catch")) = 2
    /\ result = Return(Number(2))
    /\ scopes[catch_env].values[CatchParam].value = Number(2)

\* The declarations among the body statements executed, in order.
Declared == SelectSeq(trace, LAMBDA r : r.blk = "pride" /\ r.out.kind # "enter"
                                         /\ r.stmt.op = "decl")

\* The value the body last declared name with.
LastDeclared(name) ==
    LET ds == SelectSeq(Declared, LAMBDA r : r.stmt.name = name)
    IN  ds[Len(ds)].stmt.arg.lit

\* C6: pride Name { body } runs body in a fresh child scope of the current
\* scope; when body completes with None, Name is bound in the enclosing scope
\* to an Object whose fields are exactly the names the body bound in the
\* child scope (no binding of an ancestor scope); when a body statement
\* signals Return or Throw, that signal is returned, no further body
\* statement runs, and the enclosing scope's bindings are left as they were.
C6_PrideBlock ==
    /\ phase \in {"body", "done"} =>
           /\ pride_env = Len(scopes)
           /\ pride_env > env
           /\ scopes[pride_env].parent = env
    /\ phase = "body" => scopes[env].values = env0
    /\ \A i \in 1..Len(trace) :
           trace[i].out.kind \notin {"None", "enter"} => i = Len(trace)
    /\ phase = "done" =>
           IF BlockSignal("pride") = SigNone
           THEN /\ ret = SigNone
                /\ PrideName \in DOMAIN scopes[env].values
                /\ scopes[env].values[PrideName].value = Object(Len(stores))
                /\ Len(stores) = 1
                /\ LET fields == stores[Len(stores)]
                   IN  /\ DOMAIN fields =
                              {Declared[i].stmt.name : i \in 1..Len(Declared)}
                       /\ \A k \in DOMAIN fields : fields[k] = LastDeclared(k)
                /\ \A k \in DOMAIN env0 \ {PrideName} :
                       /\ k \in DOMAIN scopes[env].values
                       /\ scopes[env].values[k] = env0[k]
                /\ DOMAIN scopes[env].values = DOMAIN env0 \cup {PrideName}
           ELSE /\ ret = BlockSignal("pride")
                /\ scopes[env].values = env0
                /\ stores = <<>>

\* A body that declared y completed in a scope that binds x: the Object has
\* the field y and not x.
C6_Witness ==
    /\ phase = "done"
    /\ ret = SigNone
    /\ "x" \in DOMAIN env0
    /\ PrideName \in DOMAIN scopes[env].values
    /\ scopes[env].values[PrideName].value.tag = "Object"
    /\ DOMAIN stores[scopes[env].values[PrideName].value.fields] = {"y"}

\* C5: the field defaults of a class are evaluated once, when its
\* declaration executes; every `new` yields an instance with a field map of
\* its own, copied from the defaults, so that a write to a field of one
\* instance is possible and leaves the other instances alone, while a default
\* that is an Array is the one array of the class in every instance.
C5_InstanceFieldMaps ==
    /\ fieldEvals <= 1
    /\ panicWhy # "Cannot assign property on non-object value"
    /\ \A var \in byNew :
           LET inst == scopes[env].values[var].value
           IN  /\ inst.tag = "Instance"
               /\ inst.fields \in 1..Len(stores)
               /\ DOMAIN stores[inst.fields] = FieldNames
               /\ stores[inst.fields]["arr"].tag = "Array"
                      => stores[inst.fields]["arr"] =
                             scopes[env].values[ClassName].value.fields["arr"]
               /\ \A other \in byNew \ {var} :
                      scopes[env].values[other].value.fields # inst.fields


\* A step of a background thread: a thread that exists changes its position
\* or its remaining sleep.
ThreadStep ==
    \E id \in Ids : /\ thr[id] # "none"
                    /\ thr'[id] # thr[id] \/ sleepLeft'[id] # sleepLeft[id]

SameInstance(a, b) ==
    CASE a.tag = "Array" -> a.values = b.values
      [] a.tag = "Object" -> a.fields = b.fields
      [] a.tag = "Instance" -> a.fields = b.fields
      [] a.tag = "NativeFunction" -> a.n = b.n

\* === on the elements of a tuple: numbers by value, arrays by identity.
ElemStrictEq(a, b) ==
    /\ a.tag = b.tag
    /\ IF a.tag = "Number" THEN a.n = b.n ELSE SameInstance(a, b)

\* A binary expression with operator op has been evaluated.
Evaluated(op) ==
    /\ lastEval.expr = "binary"
    /\ lastEval.operator = op
    /\ lastEval.value.tag # "Pending"

\* Tuples of the same length with pairwise ===-equal elements.
TupleStrictEq(a, b) ==
    /\ Len(a.values) = Len(b.values)
    /\ \A i \in 1..Len(a.values) : ElemStrictEq(a.values[i], b.values[i])

\* C12: a === b on two Arrays, two Objects or two Callables is true only for
\* the same shared instance; on two Tuples it is true exactly when they have
\* the same length and pairwise ===-equal elements; a !== b is the negation
\* of a === b.
C12_StrictEquality ==
    LET l == lastEval.left
        r == lastEval.right
    IN  /\ (Evaluated("===") /\ l.tag = r.tag
              /\ l.tag \in {"Array", "Object", "NativeFunction"})
               => lastEval.value = Bool(SameInstance(l, r))
        /\ (Evaluated("===") /\ l.tag = "Tuple" /\ r.tag = "Tuple")
               => lastEval.value = Bool(TupleStrictEq(l, r))
        /\ Evaluated("!==") => lastEval.value = Bool(~Binary(l, "===", r).b)

\* C13: a == b is false when the tags differ; Number, String and Bool compare
\* by value and Null == Null is true; two Arrays, Objects, Instances or
\* Callables are ==-equal only if they are the same shared value.
C13_LooseEquality ==
    Evaluated("==") =>
        LET l == lastEval.left
            r == lastEval.right
        IN  /\ l.tag # r.tag => lastEval.value = Bool(FALSE)
            /\ (l.tag = r.tag /\ l.tag \in {"Number", "String", "Bool", "Null"})
                   => lastEval.value = Bool(l = r)
            /\ (l.tag = r.tag /\ l.tag \in {"Array", "Object", "Instance", "NativeFunction"}
                  /\ lastEval.value = Bool(TRUE))
                   => SameInstance(l, r)


\* C14: assign(name, v) started in scope S replaces the value of the nearest
\* binding of name on the parent chain of S, whatever its visibility, and
\* changes no other binding and no access; when no scope of the chain binds
\* name it fails (undefined variable) and every scope is as it was.
C14_AssignNearestOnly ==
    lastEval.expr = "assign" =>
        LET sc == lastEval.before
            s == lastEval.env
            name == lastEval.name
        IN  IF Binders(sc, s, name) = {}
            THEN /\ lastEval.value = Panicked("Undefined variable")
                 /\ scopes = sc
            ELSE LET k == Chain(sc, s)[NearestAt(sc, s, name)]
                 IN  /\ lastEval.value = Number(lastEval.assigned)
                     /\ scopes = [sc EXCEPT ![k].values[name].value = lastEval.assigned]

\* An assignment from a grandchild scope replaced the binding of its parent
\* while the root binds the same name, and the root's binding kept its value.
C14_Witness ==
    /\ lastEval.expr = "assign"
    /\ Len(Chain(scopes, lastEval.env)) = 3
    /\ Binders(lastEval.before, lastEval.env, lastEval.name) = {2, 3}
    /\ scopes[Chain(scopes, lastEval.env)[2]].values[lastEval.name].value = lastEval.assigned
    /\ scopes[1].values[lastEval.name].value = 1
    /\ scopes # lastEval.before

\* An assignment to a name no scope of the chain binds failed.
C14_WitnessUnbound ==
    /\ lastEval.expr = "assign"
    /\ lastEval.value = Panicked("Undefined variable")
    /\ Len(Chain(scopes, lastEval.env)) = 2


\* C15, for a class with fields only (no getter, setter or method): reading
\* property p of the instance `new` yielded returns field p of its field map,
\* and writing p stores the value in that field map; neither is an error.
C15_InstancePropertyAccess ==
    /\ (lastEval.expr = "get" /\ lastEval.object \in byNew) =>
           LET inst == scopes[env].values[lastEval.object].value
           IN  /\ inst.tag = "Instance"
               /\ lastEval.value = stores[inst.fields][lastEval.name]
    /\ (phase = "abort" /\ byNew # {}) =>
           panicWhy \notin {"Property not supported",
                            "Cannot assign property on non-object value"}


\* The source the token stream was lexed from: no Eof, no closing semicolon.
SourceOf(toks) == SelectSeq(toks, LAMBDA t : t.kind # "Eof" /\ t.lexeme # ";")

\* A source of operands and operators only.
Flat(src) == \A i \in 1..Len(src) : src[i].lexeme \notin {"(", ")", "=", ".", "[", "]"}

\* Precedence levels, loosest first.
Level(op) ==
    CASE op = "||" -> 1
      [] op = "&&" -> 2
      [] op \in {"==", "!=", "===", "!=="} -> 3
      [] op \in {">", ">=", "<", "<="} -> 4
      [] op \in {"+", "-"} -> 5
      [] op \in {"*", "/", "%"} -> 6

\* The symbol at i stands between two operands.
BinaryAt(src, i) ==
    /\ i > 1
    /\ src[i].kind = "Symbol"
    /\ src[i - 1].kind \in {"Number", "Identifier"}

RECURSIVE Tree(_)
\* The tree of a flat source under the stated grammar: it splits at the last
\* of its loosest binary operators (left-associative), and an operand is a
\* literal or identifier under its unary operators.
Tree(src) ==
    LET B == {i \in 1..Len(src) : BinaryAt(src, i)}
    IN  IF B = {}
        THEN CASE src[1].kind = "Symbol" -> ExprUnary(src[1].lexeme, Tree(Tail(src)))
               [] src[1].kind = "Number" -> ExprLiteral(Number(ParseNumber(src[1].lexeme)))
               [] OTHER -> ExprIdentifier(src[1].lexeme)
        ELSE LET i == CHOOSE k \in B :
                          /\ \A j \in B : Level(src[k].lexeme) <= Level(src[j].lexeme)
                          /\ \A j \in B : Level(src[j].lexeme) = Level(src[k].lexeme) => j <= k
                 left == Tree(SubSeq(src, 1, i - 1))
                 right == Tree(SubSeq(src, i + 1, Len(src)))
             IN  IF src[i].lexeme \in {"||", "&&"}
                 THEN ExprLogical(left, src[i].lexeme, right)
                 ELSE ExprBinary(left, src[i].lexeme, right)

\* The program of one expression statement.
OneExpression(e) == [parsed |-> TRUE, stmts |-> <<StmtExpression(e)>>, panic |-> ""]

\* C16: a source of operands and binary operators parses into the
\* left-associative tree with precedence, loosest to tightest, ||, &&,
\* equality, comparison, + -, * / %, unary; 1 + 2 * 3 evaluates to 7,
\* 2 + 3 * 4 > 10 to true, and a || b && c parses as a || (b && c).
C16_Precedence ==
    /\ (program.parsed /\ Flat(SourceOf(tokens))) =>
           program = OneExpression(Tree(SourceOf(tokens)))
    /\ (program.parsed
          /\ SourceOf(tokens) = <<Ident("a"), Sym("||"), Ident("b"), Sym("&&"), Ident("c")>>) =>
           program = OneExpression(ExprLogical(ExprIdentifier("a"), "||",
                                               ExprLogical(ExprIdentifier("b"), "&&",
                                                           ExprIdentifier("c"))))
    /\ (lastEval.expr = "program"
          /\ SourceOf(tokens) = <<Num("1"), Sym("+"), Num("2"), Sym("*"), Num("3")>>) =>
           lastEval.value = Number(7)
    /\ (lastEval.expr = "program"
          /\ SourceOf(tokens) = <<Num("2"), Sym("+"), Num("3"), Sym("*"), Num("4"),
                                  Sym(">"), Num("10")>>) =>
           lastEval.value = Bool(TRUE)

\* 2 + 3 * 4 > 10 was parsed and evaluated to true.
C16_Witness ==
    /\ lastEval.expr = "program"
    /\ SourceOf(tokens) = <<Num("2"), Sym("+"), Num("3"), Sym("*"), Num("4"),
                            Sym(">"), Num("10")>>
    /\ lastEval.value = Bool(TRUE)
    /\ program.stmts[1].expr.operator = ">"

\* The position of the first = of a source, 0 when it has none.
FirstAssign(src) ==
    IF \E i \in 1..Len(src) : src[i].lexeme = "="
    THEN CHOOSE i \in 1..Len(src) :
             /\ src[i].lexeme = "="
             /\ \A j \in 1..(i - 1) : src[j].lexeme # "="
    ELSE 0

RECURSIVE ExpectedAssign(_)
\* What `target = value` is stated to parse into: the value is everything
\* right of the first = (right-associative, looser than ||); an identifier
\* target gives Assign, a property-get Set, an index-get IndexAssign, any
\* other target a parse error.
ExpectedAssign(src) ==
    LET i == FirstAssign(src)
        target == SubSeq(src, 1, i - 1)
        value == ExpectedAssign(SubSeq(src, i + 1, Len(src)))
    IN  IF i = 0
        THEN [ok |-> TRUE, expr |-> Tree(src)]
        ELSE IF ~value.ok
             THEN value
             ELSE CASE Len(target) = 1 /\ target[1].kind = "Identifier" ->
                           [ok |-> TRUE, expr |-> ExprAssign(target[1].lexeme, value.expr)]
                    [] Len(target) = 3 /\ target[2].lexeme = "." ->
                           [ok |-> TRUE,
                            expr |-> ExprSet(ExprIdentifier(target[1].lexeme),
                                             target[3].lexeme, value.expr)]
                    [] Len(target) = 4 /\ target[2].lexeme = "[" ->
                           [ok |-> TRUE,
                            expr |-> ExprIndexAssign(ExprIdentifier(target[1].lexeme),
                                                     Tree(<<target[3]>>), value.expr)]
                    [] OTHER -> [ok |-> FALSE, expr |-> ParsePanic("Invalid assignment target")]

\* C17: `target = value` parsed through the expression entry point yields
\* Assign for an identifier target, Set for a property-get, IndexAssign for
\* an index-get, with = right-associative and looser than ||; any other
\* target is a parse error.
C17_AssignmentTargets ==
    (program.parsed /\ FirstAssign(SourceOf(tokens)) # 0) =>
        LET expected == ExpectedAssign(SourceOf(tokens))
        IN  IF expected.ok
            THEN program = OneExpression(expected.expr)
            ELSE program.panic # ""


\* The statements of a body that execute: those up to its first return.
RECURSIVE Executed(_)
Executed(body) ==
    IF body = <<>> THEN <<>>
    ELSE IF Head(body).stmt = "Return" THEN <<Head(body)>>
    ELSE <<Head(body)>> \o Executed(Tail(body))

\* An invocation of the lambda: f resolves from the calling scope and the
\* call of this step is on record.
LambdaCalled ==
    /\ lastEval' # lastEval
    /\ lastEval'.expr = "call"
    /\ EnvGet(scopes, lastEval'.caller, LambdaName, FALSE).kind = "Some"

\* C18: an invocation of a lambda creates one new scope whose parent is the
\* environment the lambda expression was evaluated in, not the caller's;
\* it binds the parameters positionally, missing arguments as Null; the body
\* resolves names through the captured chain; x++ in the body changes the
\* nearest binding of x on that chain and nothing else, for every scope that
\* sees this binding; the value is that of the first return reached, Null
\* when the body ends without one.
C18_LambdaInvocation ==
    [][LambdaCalled =>
        LET f == EnvGet(scopes, lastEval'.caller, LambdaName, FALSE).value
            args == lastEval'.args
            local == Len(scopes) + 1
            Arg(i) == IF i <= Len(args) THEN args[i] ELSE Null
            run == Executed(f.body)
            usesX == \E i \in 1..Len(run) : run[i].expr.name = "x"
            B == Binders(scopes, f.captured_env, "x")
            xk == Chain(scopes, f.captured_env)[NearestAt(scopes, f.captured_env, "x")]
            readable == B # {} /\ scopes[xk].values["x"].access # "Private"
            incremented == \E i \in 1..Len(run) : run[i] = IncrX
            after == IF incremented
                     THEN [scopes EXCEPT ![xk].values["x"].value =
                                             Number(scopes[xk].values["x"].value.n + 1)]
                     ELSE scopes
            last == run[Len(run)]
        IN  /\ Len(scopes') = local
            /\ lastEval'.local = local
            /\ scopes'[local].parent = f.captured_env
            /\ DOMAIN scopes'[local].values = {"p", "q"}
            /\ scopes'[local].values["p"] = [value |-> Arg(1), access |-> "Public"]
            /\ scopes'[local].values["q"] = [value |-> Arg(2), access |-> "Public"]
            /\ IF usesX /\ ~readable
               THEN /\ lastEval'.value.tag = "Panic"
                    /\ SubSeq(scopes', 1, Len(scopes)) = scopes
               ELSE /\ SubSeq(scopes', 1, Len(scopes)) = after
                    /\ incremented =>
                           \A s \in 1..Len(scopes) :
                               (/\ Binders(scopes, s, "x") # {}
                                /\ Chain(scopes, s)[NearestAt(scopes, s, "x")] = xk
                                /\ EnvGet(scopes, s, "x", FALSE).kind = "Some")
                                   => EnvGet(scopes', s, "x", FALSE) =
                                          Some(after[xk].values["x"].value)
                    /\ lastEval'.value =
                           IF run = <<>> \/ last.stmt # "Return"
                           THEN Null
                           ELSE CASE last.expr.name = "x" -> after[xk].values["x"].value
                                  [] last.expr.name = "p" -> Arg(1)
                                  [] last.expr.name = "q" -> Arg(2)
    ]_vars

\* The lambda captured the root scope and was called from the block, which
\* has an x of its own: it incremented and returned the x of the root, and
\* the x of the block is as declared.
C18_Witness ==
    /\ lastEval.expr = "call"
    /\ lastEval.caller = 2
    /\ lastEval.local = 3
    /\ scopes[3].parent = 1
    /\ "x" \in DOMAIN scopes[2].values
    /\ "x" \in DOMAIN scopes[1].values
    /\ scopes[2].values["x"].value = Number(2)
    /\ scopes[1].values["x"].value = Number(2)
    /\ lastEval.value = Number(2)
    /\ scopes[3].values["p"].value = Number(7)
    /\ scopes[3].values["q"].value = Null


\* Panics a timer closure raises for the arguments it was handed.
ArgumentPanics ==
    {"setTimeout(fn, ms) requires 2 arguments",
     "setTimeout delay must be a number",
     "setTimeout requires a function as first argument",
     "setInterval(fn, ms) requires 2 arguments",
     "setInterval delay must be a number",
     "setInterval requires a function as first argument",
     "clearTimeout(id) requires 1 argument",
     "clearTimeout(id) requires a numeric id",
     "clearInterval(id) requires 1 argument",
     "clearInterval(id) requires a numeric id"}

\* The evaluator is inside a callback the dispatch step invoked.
InDispatchedCallback == pc = "cb" /\ inPump

\* C19: a callback invoked by the dispatch step may call setTimeout,
\* setInterval, clearTimeout or clearInterval (its own id included): the
\* nested call succeeds -- the only panic it can raise is one about its own
\* arguments -- and when the callback ends the dispatch step goes on with the
\* messages that remain.
C19_CallbackReentrancy ==
    [][InDispatchedCallback =>
          /\ pc' \in {"cb", "pump", "panic"}
          /\ pc' = "panic" => panicWhy' \in ArgumentPanics
          /\ pc' = "pump" => inPump' /\ cbId' = 0]_vars


\* A call of the name f: the call of this step is on record.
NamedCall ==
    /\ lastEval' # lastEval
    /\ lastEval'.expr = "call"

\* The positions on the chain of s whose scope declares a function name.
FunctionHolders(sc, fn, s, name) ==
    {k \in 1..Len(Chain(sc, s)) : name \in DOMAIN FunctionsOf(fn, Chain(sc, s)[k])}

\* C20: a call f(...) whose callee is the bare identifier f invokes the
\* function f of the nearest function table on the chain of the calling
\* scope whenever the chain holds one, whatever values are bound to f on the
\* chain and whatever their visibility; only when no scope of the chain
\* declares a function f is f looked up as a value (and the call panics when
\* that lookup finds nothing).
C20_NamedCallResolution ==
    [][NamedCall =>
        LET s == lastEval'.caller
            chain == Chain(scopes, s)
            H == FunctionHolders(scopes, functions, s, LambdaName)
            B == Binders(scopes, s, LambdaName)
        IN  IF H # {}
            THEN LET k == CHOOSE k \in H : \A j \in H : k <= j
                     def == functions[chain[k]][LambdaName]
                 IN  /\ lastEval'.via = "function"
                     /\ lastEval'.callee = def
                     /\ lastEval'.value = CallArgs[Len(def.params)]
                     /\ scopes'[lastEval'.local].parent = s
            ELSE /\ lastEval'.via # "function"
                 /\ B = {} => /\ lastEval'.via = "panic"
                              /\ lastEval'.value = Panicked("Undefined function or callable")
                 /\ B # {} =>
                      LET entry == scopes[chain[NearestAt(scopes, s, LambdaName)]].values[LambdaName]
                      IN  IF entry.access = "Public" \/ NearestAt(scopes, s, LambdaName) = 1
                          THEN /\ lastEval'.via = "value"
                               /\ lastEval'.callee = entry.value
                               /\ lastEval'.value = CallArgs[3]
                          ELSE lastEval'.via = "panic"]_vars

\* C20 witness: f(7, 8, 9) was called in the innermost block, where a private
\* lambda f is bound, and ran instead the one-parameter function f declared in
\* the root scope.
C20_Witness ==
    /\ lastEval.expr = "call"
    /\ lastEval.caller = 3
    /\ lastEval.via = "function"
    /\ lastEval.value = Number(7)
    /\ LambdaName \in DOMAIN scopes[3].values
    /\ scopes[3].values[LambdaName].access = "Private"
    /\ LambdaName \in DOMAIN scopes[2].values
    /\ DOMAIN functions = {1}
    /\ scopes[4].parent = 3

\* A call that found no function on the chain and called the lambda bound to
\* f in an enclosing scope.
C20_WitnessValue ==
    /\ lastEval.expr = "call"
    /\ lastEval.caller = 3
    /\ lastEval.via = "value"
    /\ lastEval.value = Number(9)
    /\ DOMAIN functions = {}
    /\ scopes[4].parent = 1


\* The token streams in which the arrow symbol follows an identifier list or
\* an identifier.
ArrowFollows ==
    {head \o follow \o <<Eof>> :
        head \in ParamLists \cup {<<Ident("a")>>},
        follow \in {f \in Followers : f # <<>> /\ Head(f) = Sym("->")}}

\* C21: when the lambda attempt of primary() fails -- the parenthesized
\* content is no comma-separated identifier list, or no `->` follows it (or
\* the identifier) -- the cursor is restored and the tokens are parsed as an
\* ordinary expression: the node and the final cursor are those of the normal
\* forms of primary() applied at the saved position.
C21_LambdaAttemptRollback ==
    (program # NotParsed /\ tokens \notin ArrowFollows) =>
        /\ program.primary = primary_normal(tokens, 0).expr
        /\ current = primary_normal(tokens, 0).current


\* The records of trace left by an if or while statement.
CondRan == {i \in 1..Len(trace) : "stmt" \in DOMAIN trace[i]}

\* C22: a runtime error raised while the condition of an if or while
\* statement is evaluated propagates out of the statement as an error / Throw
\* that the enclosing try/catch catches: neither branch and no loop body runs
\* for that evaluation, the loop stops, and the catch body is entered.
C22_ConditionErrorPropagates ==
    \A i \in CondRan :
        trace[i].out.cond.kind \in {"Err", "Panic"} =>
            /\ trace[i].out.ran = "none"
            /\ trace[i].out.kind \in {"Err", "Throw"}
            /\ trace[i].out.value = trace[i].out.cond.value
            /\ phase \notin {"loop", "abort"}
            /\ hasCatch => /\ Len(trace) > i
                           /\ trace[i + 1] = Entered("catch")


\* false, null, the number 0 and the empty string.
Falsy(v) == v \in {Bool(FALSE), Null, Number(0), Str("")}

\* C26: the condition of an if or while statement counts as true exactly
\* when is_truthy, the rule of && and ||, says so, and the falsy values of
\* both are false, null, 0 and the empty string.
C26_ConditionTruthiness ==
    \A i \in CondRan :
        trace[i].out.cond.kind = "Ok" =>
            LET v == trace[i].out.cond.value
            IN  /\ is_truthy(v) = ~Falsy(v)
                /\ (trace[i].out.ran \in {"then", "body"}) = is_truthy(v)


\* The records of trace left by a call.
Calls == {i \in 1..Len(trace) : "call" \in DOMAIN trace[i]}

\* The body throws: its first return or throw statement is a throw.
Throws(body) ==
    \E k \in 1..Len(body) :
        /\ body[k].stmt = "Throw"
        /\ \A j \in 1..(k - 1) : body[j].stmt \notin {"Return", "Throw"}

\* The p++ statements of the body ahead of its first return or throw.
IncrementsAhead(body) ==
    Cardinality({k \in 1..Len(body) :
                    /\ body[k].stmt = "Expression"
                    /\ \A j \in 1..(k - 1) : body[j].stmt \notin {"Return", "Throw"}})

\* C23: when a statement of the body of a called function or lambda signals
\* Throw(e), the call stops executing the body (a p++ behind the throw does
\* not run) and evaluates to e as an ordinary value: the statement holding
\* the call signals nothing, the try block goes on, and the catch body of the
\* enclosing try statement is not entered for it.
C23_ThrowInCallIsValue ==
    \A i \in Calls :
        LET c == trace[i].call
            e == Number(c.args[1].n + IncrementsAhead(c.callee.body))
        IN  Throws(c.callee.body) =>
                /\ c.value = e
                /\ scopes[c.local].values["p"].value = e
                /\ trace[i].out.kind = "None"
                /\ i < Len(trace) => trace[i + 1] # Entered("catch")
                /\ (\A j \in 1..Len(trace) :
                       trace[j].blk = "try" => trace[j].out.kind \notin {"Throw", "Err"})
                       => Entries("catch") = <<>>

\* C23 witness: a try statement with a catch clause called a function whose
\* body is `throw p; p++;` with 2 and then a lambda whose body is
\* `p++; throw p;` with 1, and ended without entering its catch body.
C23_Witness ==
    /\ phase = "done"
    /\ hasCatch
    /\ Len(trace) = 3
    /\ Calls = {2, 3}
    /\ trace[2].call.callee = FunctionDef(<<"p">>, <<StmtThrow(ExprIdentifier("p")), IncrP>>)
    /\ trace[2].call.value = Number(2)
    /\ "tag" \in DOMAIN trace[3].call.callee
    /\ trace[3].call.callee.body = <<IncrP, StmtThrow(ExprIdentifier("p"))>>
    /\ trace[3].call.value = Number(2)
    /\ Entries("catch") = <<>>


\* C24: the object a `pride Name { ... }` block builds holds only the
\* bindings its body declared Public: a name declared `den` (Private) in the
\* block is no field of the object bound to Name, so it cannot be read
\* through Name from the enclosing scope.
C24_PrideExportsPublicOnly ==
    (phase = "done" /\ Len(stores) = 1) =>
        DOMAIN stores[scopes[env].values[PrideName].value.fields]
            = {k \in DOMAIN scopes[pride_env].values :
                   scopes[pride_env].values[k].access = "Public"}


\* C25: reading arr[i] or assigning arr[i] = v with i outside 0..length-1
\* (negative, or at least the length) raises the array-index-out-of-bounds
\* runtime error and leaves the array as it was.
C25_IndexOutOfBounds ==
    (/\ lastEval.expr \in {"index", "index_assign"}
     /\ lastEval.index \notin 0..(Len(lastEval.before) - 1)) =>
        /\ lastEval.value = Panicked("Array index out of bounds")
        /\ arrays[1] = lastEval.before


\* C27: reading the method m of the instance `new` yielded gives a bound
\* callable, a NativeFunction whose `this` is that instance (it shares the
\* field map of the instance) and which hands its arguments on to the
\* parameters of m; the read is no error.
C27_BoundMethod ==
    (lastEval.expr = "get" /\ lastEval.object \in byNew /\ lastEval.name = MethodName) =>
        LET inst == scopes[env].values[lastEval.object].value
        IN  /\ phase # "abort"
            /\ inst.tag = "Instance"
            /\ lastEval.value.tag = "NativeFunction"
            /\ lastEval.value.this.fields = inst.fields
            /\ lastEval.value.method = MethodName


\* The dispatcher (or anything else) starts the callback of timer id.
Invokes(id) == pc # "cb" /\ pc' = "cb" /\ cbId' = id

C29_RunDoesNotWait ==
    /\ []((pc = "pump" /\ chan = <<>>) => ENABLED PumpExit)
    /\ [](\A id \in Ids : thr[id] = "tsleep" =>
              /\ id \in DOMAIN timers
              /\ ~(pc = "cb" /\ cbId = id))
    /\ [][/\ (pc = "pump" /\ final /\ chan = <<>> /\ pc' # pc) => pc' = "done"
          /\ pc # "done"
          /\ \A id \in Ids :
                Invokes(id) => /\ thr[id] = "sent"
                               /\ chan # <<>>
                               /\ Head(chan) = Timeout(id)]_vars

\* C29 witness: run has returned while the thread of a registered timeout is
\* still asleep.
C29_Witness ==
    /\ pc = "done"
    /\ \E id \in DOMAIN timers : thr[id] = "tsleep" /\ sleepLeft[id] > 0


\* The assignment evaluated started in a scope whose nearest binding of the
\* name is a Private binding of an ancestor scope.
AssignedPrivateAncestor ==
    /\ lastEval.expr = "assign"
    /\ Binders(lastEval.before, lastEval.env, lastEval.name) # {}
    /\ NearestAt(lastEval.before, lastEval.env, lastEval.name) > 1
    /\ LET k == Chain(lastEval.before, lastEval.env)
                    [NearestAt(lastEval.before, lastEval.env, lastEval.name)]
       IN  lastEval.before[k].values[lastEval.name].access = "Private"

\* C30: Environment.assign checks no visibility and keeps the access of the
\* binding it updates: from a child scope it replaces the value of a Private
\* binding of an ancestor, which get from that same scope rejects as an access
\* violation before and after, and the binding stays Private; no assignment
\* changes the access of any binding.
C30_AssignIgnoresPrivate ==
    /\ lastEval.expr = "assign" =>
           \A k \in 1..Len(lastEval.before) :
               \A n \in DOMAIN lastEval.before[k].values :
                   /\ n \in DOMAIN scopes[k].values
                   /\ scopes[k].values[n].access = lastEval.before[k].values[n].access
    /\ AssignedPrivateAncestor =>
           LET sc == lastEval.before
               s == lastEval.env
               name == lastEval.name
               k == Chain(sc, s)[NearestAt(sc, s, name)]
           IN  /\ EnvGet(sc, s, name, FALSE) = AccessViolation
               /\ lastEval.value = Number(lastEval.assigned)
               /\ scopes[k].values[name] =
                      [value |-> lastEval.assigned, access |-> "Private"]
               /\ EnvGet(scopes, s, name, FALSE) = AccessViolation

\* C30 witness: an assignment from a child scope replaced the value of a
\* Private binding of the root scope.
C30_Witness ==
    /\ AssignedPrivateAncestor
    /\ Chain(lastEval.before, lastEval.env)
           [NearestAt(lastEval.before, lastEval.env, lastEval.name)] = 1
    /\ lastEval.before[1].values[lastEval.name].value # lastEval.assigned
    /\ scopes[1].values[lastEval.name].value = lastEval.assigned

====
